---- MODULE Spec2Model ----
(***************************************************************************)
(* Link-based profile synchronisation of tribitr-web: the sync routes of   *)
(* the backend (pull / push over the profile_snapshots table, backup       *)
(* import) and the sync orchestrator of the web client (push effect,       *)
(* pull effects, mergeSnapshots, applySnapshot).                           *)
(*                                                                         *)
(* Strings that the code only compares to "" are modelled as strings;      *)
(* ISO timestamps are modelled by the integer Date.parse gives for them,   *)
(* with 0 standing for the empty string; tokens are sequences of           *)
(* one-character strings so that the token pattern is computed.            *)
(***************************************************************************)
EXTENDS Integers, Sequences, FiniteSets, Bags, TLC

VARIABLES
  store,     \* profile_snapshots: key -> row, or NoRow
  reqs,      \* the bag of requests in flight, until their answer is delivered
  sent,      \* how many requests have been sent so far
  accepted,  \* history: per key, the revisions of the Accepted push responses, in order
  now,       \* the wall clock (what new Date() returns)
  dev,       \* the web client on each device: React state of App
  tasks,     \* the client's async callbacks in flight (pull / push)
  entries,   \* the Map of the fail blocker of the sync routes: ip -> BlockEntry
  answered   \* history: per ip, the latest answers of the route handler, in order

vars == <<store, reqs, sent, accepted, now, dev, tasks, entries, answered>>

(***************************************************************************)
(* Bounds of the model                                                     *)
(***************************************************************************)
MaxReqs == 3        \* requests the server receives in one behaviour
MaxClock == 1       \* the clock stops being advanced after this many ticks

(***************************************************************************)
(* Tokens: shareCode and profileId                                         *)
(***************************************************************************)
TokenMinLen == 8
TokenMaxLen == 128
SnapshotMaxLen == 1000000

TokenChars ==
  { "a","b","c","d","e","f","g","h","i","j","k","l","m",
    "n","o","p","q","r","s","t","u","v","w","x","y","z",
    "A","B","C","D","E","F","G","H","I","J","K","L","M",
    "N","O","P","Q","R","S","T","U","V","W","X","Y","Z",
    "0","1","2","3","4","5","6","7","8","9","_","-" }

\* /^[a-zA-Z0-9_-]{8,128}$/.test(value)
tokenPattern(value) ==
  /\ Len(value) >= TokenMinLen
  /\ Len(value) <= TokenMaxLen
  /\ \A i \in 1..Len(value) : value[i] \in TokenChars

\* Boolean(value && tokenPattern.test(value)); <<>> is undefined or ""
isValidToken(value) == value # <<>> /\ tokenPattern(value)

\* the tokens requests carry
Profile1 == <<"p","r","o","f","i","l","e","-","1">>
Profile2 == <<"p","r","o","f","i","l","e","-","2">>
Share1 == <<"a","1","b","2","c","3","d","4">>
Share2 == <<"e","5","f","6","g","7","h","8">>
NoToken == <<>>
TokPercent == <<"%","%","%">>
TokShort == <<"b","a","d">>
TokStar == <<"b","a","d","*","i","d","0","0","0">>
TokLong == [i \in 1..(TokenMaxLen + 1) |-> "a"]

MalformedTokens == {TokPercent, TokShort, TokStar, TokLong}

Keys == {<<Profile1, Share1>>, <<Profile2, Share1>>, <<Profile2, Share2>>}

(***************************************************************************)
(* Snapshots and item states                                               *)
(***************************************************************************)
Foods == {"f1", "f2"}          \* ids of the seed foods
Null == [kind |-> "null"]      \* null / undefined / a thrown error caught as null

\* custom image URLs pushes carry
UrlWiki == "https://upload.wikimedia.org/Apple_pie.jpg"
UrlOther == "https://example.com/"
UrlBad == "http://"                      \* new URL() throws
UrlData == "data:image/png;base64,AAAA"  \* not http(s)
UrlBlank == "   "                        \* trims to ""

trim(s) == IF s = UrlBlank THEN "" ELSE s
isHttp(url) == url \in {UrlWiki, UrlOther, UrlBad}   \* /^https?:\/\//i.test(url)

\* String(attribution || "").trim().toLowerCase()
lower(s) == IF s = "URL manual" THEN "url manual" ELSE s

shouldClearManualImageUntrimmed(attribution) == attribution = ""

shouldClearManualImage(attribution) == lower(trim(attribution)) = ""

needsAttributionBackfill(attribution) ==
  lower(trim(attribution)) \in {"", "url manual"}

inferAttributionFromUrl(rawUrl) ==
  CASE rawUrl = UrlWiki ->
         [kind |-> "inferred",
          imageAttribution |-> "Wikimedia Commons: Apple pie",
          imageAttributionUrl |-> "https://upload.wikimedia.org",
          source |-> "wikimedia-url"]
    [] rawUrl = UrlOther ->
         [kind |-> "inferred",
          imageAttribution |-> "Fuente: example.com",
          imageAttributionUrl |-> "https://example.com",
          source |-> "url-scan"]
    [] OTHER -> Null

legacyMap(current) ==
  CASE current = "manual-url-scan" -> "url-scan"
    [] current = "wikipedia-manual-url" -> "wikipedia-url"
    [] current = "wikimedia commons-manual-url" -> "wikimedia-url"
    [] current = "unsplash-manual-url" -> "unsplash-url"
    [] current = "pexels-manual-url" -> "pexels-url"
    [] current = "pixabay-manual-url" -> "pixabay-url"
    [] current = "openverse-manual-url" -> "openverse-url"
    [] current = "pxhere-manual-url" -> "pxhere-url"
    [] OTHER -> ""

normalizeSourceFromUrl(rawUrl, currentSource) ==
  LET current == lower(trim(currentSource))
      inferred == inferAttributionFromUrl(rawUrl)
  IN IF legacyMap(current) # "" THEN legacyMap(current)
     ELSE IF inferred # Null /\ current \in {"", "manual-url", "url-scan"}
          THEN inferred.source
          ELSE currentSource

\* the state of one food as buildInitialState creates it
InitialFood(t) ==
  [isHidden |-> FALSE, notes |-> "", exposures |-> <<>>,
   customImageUrl |-> "", customImageAttribution |-> "",
   customImageAttributionUrl |-> "", imageGeneratedAt |-> 0, imageSource |-> "",
   description |-> "", reactions |-> "", descriptionGeneratedAt |-> 0,
   descriptionModel |-> "", updatedAt |-> t]

buildInitialState(t) == [id \in Foods |-> InitialFood(t)]

DefaultSettings ==
  [theme |-> "system", language |-> "es", hideIntroduced |-> FALSE,
   showHidden |-> FALSE, showNotSuitableFoods |-> FALSE]

initialOrder == <<"f1", "f2">>

\* the body of Object.values(foods).forEach in sanitizeSnapshotImages
sanitizeFood(food, t) ==
  LET customImageUrl == trim(food.customImageUrl)
      f1 == IF isHttp(customImageUrl)
            THEN [food EXCEPT !.imageSource =
                    normalizeSourceFromUrl(customImageUrl, food.imageSource)]
            ELSE food
      inferred == inferAttributionFromUrl(customImageUrl)
      f2 == IF /\ isHttp(customImageUrl)
               /\ needsAttributionBackfill(f1.customImageAttribution)
               /\ inferred # Null
            THEN [f1 EXCEPT !.customImageAttribution = inferred.imageAttribution,
                            !.customImageAttributionUrl = inferred.imageAttributionUrl,
                            !.imageSource = inferred.source]
            ELSE f1
  IN IF customImageUrl = "" THEN food
     ELSE IF ~shouldClearManualImage(f2.customImageAttribution) THEN f2
     ELSE [f2 EXCEPT !.customImageUrl = "", !.customImageAttribution = "",
                     !.customImageAttributionUrl = "", !.imageSource = "",
                     !.imageGeneratedAt = 0, !.updatedAt = t]

\* the body of Object.keys(familyOverrides).forEach: Null when the entry is deleted
sanitizeFamilyOverride(item) ==
  LET imageUrl == trim(item.imageUrl)
      i1 == IF isHttp(imageUrl)
            THEN [item EXCEPT !.imageSource =
                    normalizeSourceFromUrl(imageUrl, item.imageSource)]
            ELSE item
      inferred == inferAttributionFromUrl(imageUrl)
      i2 == IF /\ isHttp(imageUrl)
               /\ needsAttributionBackfill(i1.imageAttribution)
               /\ inferred # Null
            THEN [i1 EXCEPT !.imageAttribution = inferred.imageAttribution,
                            !.imageAttributionUrl = inferred.imageAttributionUrl,
                            !.imageSource = inferred.source]
            ELSE i1
  IN IF imageUrl = "" THEN item
     ELSE IF ~shouldClearManualImage(i2.imageAttribution) THEN i2
     ELSE Null

sanitizeSnapshotImages(snapshot, t) ==
  LET kept == {fam \in DOMAIN snapshot.familyOverrides :
                 sanitizeFamilyOverride(snapshot.familyOverrides[fam]) # Null}
  IN [snapshot EXCEPT
        !.foods = [id \in DOMAIN snapshot.foods |-> sanitizeFood(snapshot.foods[id], t)],
        !.familyOverrides =
           [fam \in kept |-> sanitizeFamilyOverride(snapshot.familyOverrides[fam])]]

\* JSON.stringify(snapshot).length: the items plus the rest of the document
JsonLength(snapshot) == snapshot.pad + Cardinality(DOMAIN snapshot.foods)

isValidSnapshotNoLimit(snapshot) == snapshot.kind = "object"

isValidSnapshot(snapshot) ==
  /\ snapshot.kind = "object"      \* not null, not an array, typeof "object"
  /\ JsonLength(snapshot) <= SnapshotMaxLen

\* typeof baseRevision === "number" && Number.isInteger(baseRevision) && baseRevision >= 0
isValidBaseRevision(baseRevision) ==
  /\ baseRevision.type = "number"
  /\ baseRevision.integer
  /\ baseRevision.val >= 0

(***************************************************************************)
(* The merge engine of the client (App.tsx)                                *)
(***************************************************************************)
\* meta.orderUpdatedAt || updatedAt || ""
getOrderUpdatedAtIgnoringMeta(snapshot) == snapshot.updatedAt

getOrderUpdatedAt(snapshot) ==
  IF snapshot.meta.orderUpdatedAt # 0 THEN snapshot.meta.orderUpdatedAt
  ELSE snapshot.updatedAt

\* Date.parse of "" is NaN, which toTimestamp turns into 0
toTimestamp(value) == value

\* Date.parse(a) >= Date.parse(b): false when either is NaN (the empty string)
dateParseGreater(a, b) == a # 0 /\ b # 0 /\ a > b

dateParseGeq(a, b) == a # 0 /\ b # 0 /\ a >= b

RECURSIVE sortAscending(_)
sortAscending(S) ==
  IF S = {} THEN << >>
  ELSE LET least == CHOOSE x \in S : \A y \in S : x <= y
       IN <<least>> \o sortAscending(S \ {least})

Range(seq) == {seq[i] : i \in 1..Len(seq)}

ExposureCap == 3

mergeExposuresNewest(left, right) ==
  LET unique == {t \in Range(left) \cup Range(right) : t # 0}
      sorted == sortAscending(unique)
  IN SubSeq(sorted, IF Len(sorted) < ExposureCap THEN 1 ELSE Len(sorted) - ExposureCap + 1,
            Len(sorted))

mergeExposures(left, right) ==
  LET unique == {t \in Range(left) \cup Range(right) : t # 0}   \* filter, new Set
      sorted == sortAscending(unique)
  IN SubSeq(sorted, 1, IF Len(sorted) < ExposureCap THEN Len(sorted) ELSE ExposureCap)

\* a || b || ""
orElse(a, b) == IF a # "" THEN a ELSE b
orElseTime(a, b) == IF a # 0 THEN a ELSE b

mergeFoodStateNewerOnly(localFood, remoteFood) ==
  LET newer == IF toTimestamp(localFood.updatedAt) >= toTimestamp(remoteFood.updatedAt)
               THEN localFood ELSE remoteFood
  IN [newer EXCEPT
        !.exposures = mergeExposures(localFood.exposures, remoteFood.exposures)]

mergeFoodState(localFood, remoteFood) ==
  LET localTime == toTimestamp(localFood.updatedAt)
      remoteTime == toTimestamp(remoteFood.updatedAt)
      newer == IF localTime >= remoteTime THEN localFood ELSE remoteFood
      older == IF localTime >= remoteTime THEN remoteFood ELSE localFood
      newerAiTime == toTimestamp(newer.descriptionGeneratedAt)
      olderAiTime == toTimestamp(older.descriptionGeneratedAt)
      aiSource == IF newerAiTime >= olderAiTime THEN newer ELSE older
  IN [newer EXCEPT
        !.exposures = mergeExposures(localFood.exposures, remoteFood.exposures),
        !.customImageUrl = orElse(newer.customImageUrl, older.customImageUrl),
        !.customImageAttribution =
           orElse(newer.customImageAttribution, older.customImageAttribution),
        !.customImageAttributionUrl =
           orElse(newer.customImageAttributionUrl, older.customImageAttributionUrl),
        !.imageGeneratedAt = orElseTime(newer.imageGeneratedAt, older.imageGeneratedAt),
        !.imageSource = orElse(newer.imageSource, older.imageSource),
        !.description = aiSource.description,
        !.reactions = aiSource.reactions,
        !.descriptionGeneratedAt = aiSource.descriptionGeneratedAt,
        !.descriptionModel = aiSource.descriptionModel,
        !.updatedAt = IF localTime >= remoteTime
                      THEN orElseTime(localFood.updatedAt, remoteFood.updatedAt)
                      ELSE orElseTime(remoteFood.updatedAt, localFood.updatedAt)]

normalizeFoodsWithoutHidden(foods) ==
  [id \in {k \in DOMAIN foods : ~foods[k].isHidden} |-> foods[id]]

\* every field is present in the item states of this model, so each "?? ''" keeps it
normalizeFoods(foods) == [id \in DOMAIN foods |-> foods[id]]

RECURSIVE dedupe(_)
\* Array.from(new Set(list)): the first occurrence of each element, in order
dedupe(list) ==
  IF list = << >> THEN << >>
  ELSE LET front == dedupe(SubSeq(list, 1, Len(list) - 1))
           last == list[Len(list)]
       IN IF last \in Range(front) THEN front ELSE Append(front, last)

RECURSIVE keysOf(_)
\* Object.keys of a record whose keys are ids, in one fixed order
keysOf(ids) ==
  IF ids = {} THEN << >>
  ELSE LET first == CHOOSE id \in ids : TRUE
       IN <<first>> \o keysOf(ids \ {first})

\* item.trim().toLowerCase() of a family name
FamilyRaw == " Frutas"
familyKey(family) == IF family = FamilyRaw THEN "frutas" ELSE family

\* drops the entries without name or family and rebuilds the others field by field
normalizeCustomFoods(customFoods) ==
  [id \in {k \in DOMAIN customFoods :
             customFoods[k].name # "" /\ customFoods[k].family # ""} |->
     [id |-> id, name |-> customFoods[id].name, family |-> customFoods[id].family,
      allergens |-> customFoods[id].allergens, imageUrl |-> customFoods[id].imageUrl,
      imageAttribution |-> customFoods[id].imageAttribution,
      imageAttributionUrl |-> customFoods[id].imageAttributionUrl]]

normalizeFamilyList(families) ==
  dedupe(SelectSeq([i \in 1..Len(families) |-> familyKey(families[i])],
                   LAMBDA item : item # ""))

\* drops the entries without imageUrl
normalizeFamilyOverrides(overrides) ==
  [fam \in {f \in DOMAIN overrides : overrides[f].imageUrl # ""} |-> overrides[fam]]

mergeSnapshots(local, remote) ==
  LET allFoodIds == DOMAIN local.foods \cup DOMAIN remote.foods
      mergedFoods ==
        [id \in allFoodIds |->
           IF id \notin DOMAIN local.foods THEN remote.foods[id]
           ELSE IF id \notin DOMAIN remote.foods THEN local.foods[id]
           ELSE mergeFoodState(local.foods[id], remote.foods[id])]
      localOrderWins == dateParseGeq(getOrderUpdatedAt(local), getOrderUpdatedAt(remote))
      localWins == dateParseGeq(local.updatedAt, remote.updatedAt)
      localFamilyOrder == normalizeFamilyList(local.familyOrder)
      remoteFamilyOrder == normalizeFamilyList(remote.familyOrder)
  IN [remote EXCEPT
        !.shareCode = IF remote.shareCode # NoToken THEN remote.shareCode
                      ELSE local.shareCode,
        !.foods = normalizeFoods(mergedFoods),
        !.customFoods = normalizeCustomFoods(remote.customFoods)
                          @@ normalizeCustomFoods(local.customFoods),
        !.customFamilies = dedupe(normalizeFamilyList(local.customFamilies)
                                    \o normalizeFamilyList(remote.customFamilies)),
        !.familyOrder =
           IF localFamilyOrder = << >> /\ remoteFamilyOrder # << >> THEN remoteFamilyOrder
           ELSE IF remoteFamilyOrder = << >> /\ localFamilyOrder # << >>
                THEN localFamilyOrder
                ELSE IF localWins THEN localFamilyOrder ELSE remoteFamilyOrder,
        !.familyOverrides = normalizeFamilyOverrides(remote.familyOverrides)
                              @@ normalizeFamilyOverrides(local.familyOverrides),
        !.order = IF localOrderWins THEN local.order ELSE remote.order,
        !.settings = IF localWins THEN local.settings ELSE remote.settings,
        !.updatedAt = IF localWins THEN local.updatedAt ELSE remote.updatedAt,
        !.meta = [orderUpdatedAt |->
                    IF localOrderWins THEN getOrderUpdatedAt(local)
                    ELSE getOrderUpdatedAt(remote)]]

(***************************************************************************)
(* The sync routes: POST /api/sync/pull and POST /api/sync/push            *)
(***************************************************************************)
NoResp == [status |-> 0]

\* a request the server starts to handle; from is the client task awaiting it (0: none)
NewRequest(route, body, from) ==
  [route |-> route, body |-> body, from |-> from, pc |-> "received", queries |-> 0,
   sanitized |-> Null, existing |-> Null, toSave |-> Null, resp |-> NoResp]

InFlight == BagToSet(reqs)
Replace(r, next) == reqs' = (reqs (-) SetToBag({r})) (+) SetToBag({next})

KeyOf(body) == <<body.profileId, body.shareCode>>

Respond(r, resp) == [r EXCEPT !.pc = "done", !.resp = resp]

BadRequest(error) == [status |-> 400, error |-> error]

\* the checks of the pull handler before its query: "" when the body passes
pullValidationError(body) ==
  IF ~isValidToken(body.shareCode) THEN "shareCode format is invalid"
  ELSE IF body.profileId # NoToken /\ ~isValidToken(body.profileId)
       THEN "profileId format is invalid"
       ELSE ""

\* the checks of the push handler before its first query: "" when the body passes
pushValidationError(body) ==
  IF ~isValidToken(body.shareCode) \/ ~isValidToken(body.profileId)
  THEN "shareCode or profileId format is invalid"
  ELSE IF ~isValidSnapshot(body.snapshot) THEN "snapshot is invalid"
  ELSE IF ~isValidBaseRevision(body.baseRevision)
       THEN "baseRevision must be a positive integer"
  ELSE IF body.shareCode = NoToken \/ body.profileId = NoToken
            \/ body.snapshot = Null
       THEN "shareCode, profileId and snapshot are required"
       ELSE ""

\* the rows "select snapshot, revision ... where share_code = $1 [and profile_id = $2]" matches
pullCandidates(body) ==
  IF body.profileId # NoToken
  THEN {k \in DOMAIN store : k = KeyOf(body)}
  ELSE {k \in DOMAIN store : k[2] = body.shareCode}

PullOk(row) == [status |-> 200, snapshot |-> row.snapshot]

NotFound == [status |-> 404, error |-> "not found"]

isConflictOnlyWhenBehind(baseRevision, currentRevision) == baseRevision < currentRevision

\* baseRevision !== currentRevision
isConflict(baseRevision, currentRevision) == baseRevision # currentRevision

Conflict(row, sanitized) ==
  [status |-> 409, snapshot |-> row.snapshot, revision |-> row.revision, conflict |-> TRUE]

\* { ...sanitizedSnapshot, revision: nextRevision, updatedAt: new Date().toISOString() }
snapshotToSave(sanitizedSnapshot, nextRevision, t) ==
  [sanitizedSnapshot EXCEPT !.revision = nextRevision, !.updatedAt = t]

Accepted(saved) == [status |-> 200, snapshot |-> saved, revision |-> saved.revision]

ServerError == [status |-> 500, error |-> "unhandled"]

Log(k, revision) ==
  accepted' = [accepted EXCEPT ![k] = Append(@, revision)]

\* pull: lines 166-184, up to the await of the query
pullArrival(body, from) ==
  LET r == NewRequest("pull", body, from)
  IN IF pullValidationError(body) # ""
     THEN Respond(r, BadRequest(pullValidationError(body)))
     ELSE [r EXCEPT !.pc = "select", !.queries = 1]

PullReceive(body, from) ==
  /\ sent' = sent + 1
  /\ reqs' = reqs (+) SetToBag({pullArrival(body, from)})

\* pull: the query runs and the handler answers
PullSelect(r) ==
  /\ r.route = "pull" /\ r.pc = "select"
  /\ IF pullCandidates(r.body) = {}
     THEN Replace(r, Respond(r, NotFound))
     ELSE \E k \in pullCandidates(r.body) :
            Replace(r, [Respond(r, PullOk(store[k])) EXCEPT !.existing = store[k]])
  /\ UNCHANGED <<store, sent, accepted, now, dev, tasks, entries, answered>>

\* push: lines 195-218, up to the await of the select
pushArrival(body, from, t) ==
  LET r == NewRequest("push", body, from)
  IN IF pushValidationError(body) # ""
     THEN Respond(r, BadRequest(pushValidationError(body)))
     ELSE [r EXCEPT !.pc = "select", !.queries = 1,
                    !.sanitized = sanitizeSnapshotImages(body.snapshot, t)]

PushReceive(body, from) ==
  /\ sent' = sent + 1
  /\ reqs' = reqs (+) SetToBag({pushArrival(body, from, now)})

\* push: the select runs; lines 220-226 or 235-250, up to the await of the write
PushSelect(r) ==
  LET k == KeyOf(r.body) IN
  /\ r.route = "push" /\ r.pc = "select"
  /\ Replace(r,
       IF k \notin DOMAIN store
       THEN [r EXCEPT !.pc = "insert", !.queries = 2,
                      !.toSave = snapshotToSave(r.sanitized, 1, now)]
       ELSE IF isConflict(r.body.baseRevision.val, store[k].revision)
            THEN [Respond(r, Conflict(store[k], r.sanitized)) EXCEPT !.existing = store[k]]
            ELSE [r EXCEPT !.pc = "update", !.queries = 2, !.existing = store[k],
                           !.toSave = snapshotToSave(r.sanitized, store[k].revision + 1, now)])
  /\ UNCHANGED <<store, sent, accepted, now, dev, tasks, entries, answered>>

\* push: the insert runs (lines 227-232); the primary key rejects a second row, the
\* rejection is not caught: the request is left unanswered or answered 500
PushInsert(r) ==
  LET k == KeyOf(r.body) IN
  /\ r.route = "push" /\ r.pc = "insert"
  /\ IF k \in DOMAIN store
     THEN /\ \/ Replace(r, [r EXCEPT !.pc = "hung"])
             \/ Replace(r, Respond(r, ServerError))
          /\ UNCHANGED <<store, accepted>>
     ELSE /\ store' = (k :> [snapshot |-> r.toSave, revision |-> r.toSave.revision]) @@ store
          /\ Replace(r, Respond(r, Accepted(r.toSave)))
          /\ Log(k, r.toSave.revision)
  /\ UNCHANGED <<sent, now, dev, tasks, entries, answered>>

\* push: the update runs (lines 252-257)
PushUpdate(r) ==
  LET k == KeyOf(r.body) IN
  /\ r.route = "push" /\ r.pc = "update"
  /\ store' = IF k \in DOMAIN store
              THEN [store EXCEPT ![k] = [snapshot |-> r.toSave, revision |-> r.toSave.revision]]
              ELSE store
  /\ Replace(r, Respond(r, Accepted(r.toSave)))
  /\ Log(k, r.toSave.revision)
  /\ UNCHANGED <<sent, now, dev, tasks, entries, answered>>

\* time passes
Tick ==
  /\ now <= MaxClock
  /\ now' = now + 1
  /\ UNCHANGED <<store, reqs, sent, accepted, dev, tasks, entries, answered>>

(***************************************************************************)
(* The requests an arbitrary caller sends to the sync routes               *)
(***************************************************************************)
BaseRev(n) == [type |-> "number", integer |-> TRUE, val |-> n]

InvalidBaseRevisions ==
  { [type |-> "undefined", integer |-> FALSE, val |-> 0],   \* absent
    [type |-> "string", integer |-> FALSE, val |-> 1],      \* "1"
    [type |-> "number", integer |-> FALSE, val |-> 1],      \* 1.5, NaN
    [type |-> "number", integer |-> TRUE, val |-> 0 - 1] }  \* -1

ObjectSnapshot(profileId, foods, pad) ==
  [kind |-> "object", pad |-> pad, profileId |-> profileId, shareCode |-> Share1,
   revision |-> 1, updatedAt |-> 1, settings |-> DefaultSettings, foods |-> foods,
   customFoods |-> << >>, customFamilies |-> << >>, familyOrder |-> << >>,
   familyOverrides |-> << >>, order |-> initialOrder, meta |-> [orderUpdatedAt |-> 1]]

FoodsPlain == buildInitialState(1)
FoodsNote == [FoodsPlain EXCEPT !["f1"].notes = "likes it"]

SnapPlain == ObjectSnapshot(Profile1, FoodsPlain, 0)
SnapNote == ObjectSnapshot(Profile1, FoodsNote, 0)
\* serialises to exactly the limit, and to one character more
SnapAtLimit == ObjectSnapshot(Profile1, FoodsPlain, SnapshotMaxLen - Cardinality(Foods))
SnapOverLimit == ObjectSnapshot(Profile1, FoodsPlain, SnapshotMaxLen - Cardinality(Foods) + 1)
SnapArray == [kind |-> "array"]

InvalidSnapshots == {Null, SnapArray, SnapOverLimit}

PushBody(shareCode, profileId, baseRevision, snapshot) ==
  [shareCode |-> shareCode, profileId |-> profileId,
   baseRevision |-> baseRevision, snapshot |-> snapshot]

ValidPushBodies ==
  { PushBody(Share1, Profile1, BaseRev(n), SnapNote) : n \in 0..2 }
  \cup { PushBody(Share1, Profile1, BaseRev(1), SnapPlain),
         PushBody(Share1, Profile2, BaseRev(0), ObjectSnapshot(Profile2, FoodsPlain, 0)),
         PushBody(Share1, Profile1, BaseRev(1), SnapAtLimit) }

InvalidPushBodies ==
  { PushBody(TokShort, Profile1, BaseRev(1), SnapNote) }
  \cup { PushBody(Share1, tok, BaseRev(1), SnapNote) : tok \in {TokLong, NoToken} }
  \cup { PushBody(Share1, Profile1, BaseRev(1), snap) : snap \in InvalidSnapshots }
  \cup { PushBody(Share1, Profile1, b, SnapNote) : b \in InvalidBaseRevisions }

PullBody(shareCode, profileId) == [shareCode |-> shareCode, profileId |-> profileId]

ValidPullBodies == { PullBody(Share1, Profile1), PullBody(Share1, NoToken) }

InvalidPullBodies ==
  { PullBody(TokPercent, TokStar), PullBody(TokShort, NoToken),
    PullBody(Share1, TokStar), PullBody(NoToken, Profile1) }

SendPull ==
  /\ sent < MaxReqs
  /\ \E body \in ValidPullBodies \cup InvalidPullBodies : PullReceive(body, 0)
  /\ UNCHANGED <<store, accepted, now, dev, tasks, entries, answered>>

SendPush ==
  /\ sent < MaxReqs
  /\ \E body \in ValidPushBodies \cup InvalidPushBodies : PushReceive(body, 0)
  /\ UNCHANGED <<store, accepted, now, dev, tasks, entries, answered>>

\* the caller reads the answer; the request is over
Forget(r) ==
  /\ r.pc = "done" /\ r.from = 0
  /\ reqs' = reqs (-) SetToBag({r})
  /\ UNCHANGED <<store, sent, accepted, now, dev, tasks, entries, answered>>

(***************************************************************************)
(* The sync orchestrator of the client (App.tsx), one per device           *)
(***************************************************************************)
Devices == {"A", "B"}

\* the state buildLocalSnapshot reads, as one render of the component holds it
View(c) ==
  [foodStates |-> c.foodStates, order |-> c.order, orderUpdatedAt |-> c.orderUpdatedAt,
   settings |-> c.settings, familyOverrides |-> c.familyOverrides,
   customFoods |-> c.customFoods, customFamilies |-> c.customFamilies,
   familyOrder |-> c.familyOrder,
   syncRevision |-> c.syncRevision, profileId |-> c.profileId]

\* the component after the stored profile is loaded: createSnapshot's state, and
\* no sync effect has run yet
LoadedClient(t) ==
  [foodStates |-> buildInitialState(t), order |-> initialOrder, orderUpdatedAt |-> t,
   settings |-> DefaultSettings, familyOverrides |-> << >>, syncRevision |-> 1,
   customFoods |-> << >>, customFamilies |-> << >>, familyOrder |-> << >>,
   syncReady |-> FALSE, syncError |-> FALSE, lastSyncAt |-> 0, isSyncing |-> FALSE,
   pushTimer |-> FALSE, started |-> FALSE, closure |-> Null, profileId |-> Profile1]

\* profiles.find((item) => item.id === profileId).shareCode
shareCodeOf(profileId) == IF profileId = Profile2 THEN Share2 ELSE Share1

buildLocalSnapshot(view, t) ==
  [kind |-> "object", pad |-> 0, profileId |-> view.profileId,
   shareCode |-> shareCodeOf(view.profileId),
   revision |-> IF view.syncRevision = 0 THEN 1 ELSE view.syncRevision,
   updatedAt |-> t, settings |-> view.settings,
   foods |-> normalizeFoods(view.foodStates),
   customFoods |-> normalizeCustomFoods(view.customFoods),
   customFamilies |-> normalizeFamilyList(view.customFamilies),
   familyOrder |-> normalizeFamilyList(view.familyOrder),
   familyOverrides |-> normalizeFamilyOverrides(view.familyOverrides),
   order |-> view.order, meta |-> [orderUpdatedAt |-> view.orderUpdatedAt]]

\* the push effect runs again after a render that changed one of its dependencies:
\* it clears its timer and, when syncReady, sets a new one
rearm(c) == [c EXCEPT !.pushTimer = c.syncReady]

\* every call sets foodStates to a new object, a dependency of the push effect
applySnapshot(c, snapshot, t) ==
  LET normalizedCustomFoods == normalizeCustomFoods(snapshot.customFoods)
      customIds == DOMAIN normalizedCustomFoods
  IN
  rearm([c EXCEPT
     !.foodStates = (normalizeFoods(snapshot.foods) @@ buildInitialState(t))
                      @@ [id \in customIds |-> InitialFood(t)],
     !.customFoods = normalizedCustomFoods,
     !.customFamilies = normalizeFamilyList(snapshot.customFamilies),
     !.familyOrder = normalizeFamilyList(snapshot.familyOrder),
     !.familyOverrides = normalizeFamilyOverrides(snapshot.familyOverrides),
     !.order = dedupe((snapshot.order \o initialOrder) \o keysOf(customIds)),
     !.orderUpdatedAt = orElseTime(getOrderUpdatedAt(snapshot), t),
     !.settings = snapshot.settings,
     !.syncRevision = snapshot.revision])

\* the interval and focus effects run again when syncReady changes and keep the
\* buildLocalSnapshot of that render
capture(c) == [c EXCEPT !.closure = View(c)]

MaxSyncs == 4       \* requests the two devices send in one behaviour
MaxEdits == 2       \* edits the users make in one behaviour
MaxInFlight == 2    \* requests the server handles at one time

PullTriggers == {"initial", "interval", "focus", "manual"}

\* { shareCode: profile.shareCode, profileId: profile.id }
TheBody(profileId) == PullBody(shareCodeOf(profileId), profileId)

\* runPull (2018-2030), the setInterval callback (2145-2157), onFocus (2179-2190)
\* and handleSyncNow (3150-3163), up to the await of the fetch
ClientPull(d, trigger) ==
  LET c == dev[d] IN
  /\ sent < MaxSyncs /\ Cardinality(InFlight) < MaxInFlight
  /\ IF trigger = "initial" THEN ~c.started ELSE c.syncReady
  /\ PullReceive(TheBody(c.profileId), sent + 1)
  /\ tasks' = (sent + 1) :>
       [device |-> d, kind |-> "pull", trigger |-> trigger, pc |-> "first",
        closure |-> IF trigger \in {"interval", "focus"} THEN c.closure ELSE View(c),
        snapshot |-> Null, base |-> 0, conflict |-> Null, merged |-> Null] @@ tasks
  /\ dev' = [dev EXCEPT ![d] = [c EXCEPT !.isSyncing = TRUE, !.started = TRUE]]
  /\ UNCHANGED <<store, accepted, now, entries, answered>>

\* the end of the initial pull: syncReady turns true, the interval and focus effects
\* and the push effect run
ready(c) == rearm(capture([c EXCEPT !.syncReady = TRUE]))

Without(f, t) == [x \in DOMAIN f \ {t} |-> f[x]]

AnswerTo(t) == {r \in InFlight : r.from = t /\ r.pc = "done"}

\* what a pull does with its answer: runPull 2031-2051, the interval callback
\* 2158-2171, onFocus 2191-2207, handleSyncNow 3164-3184
pullOutcome(c, task, resp, t) ==
  LET merged == mergeSnapshots(buildLocalSnapshot(task.closure, t), resp.snapshot)
      handled ==
        IF resp.status = 404
        THEN IF task.trigger = "manual"
             THEN [c EXCEPT !.lastSyncAt = t, !.syncError = FALSE]
             ELSE c
        ELSE IF resp.status # 200
             THEN [c EXCEPT !.syncError = TRUE]
             ELSE [applySnapshot(c, merged, t) EXCEPT
                     !.lastSyncAt = t, !.syncError = FALSE]
      finally == [handled EXCEPT !.isSyncing = FALSE]
  IN IF task.trigger = "initial" THEN ready(finally)
     ELSE IF task.trigger = "unmounted"   \* isMounted is false: only 2031-2034 act
          THEN IF resp.status = 404 THEN ready(c) ELSE c
          ELSE finally

PullResponse(t) ==
  LET task == tasks[t] IN
  /\ task.kind = "pull"
  /\ \E r \in AnswerTo(t) :
       /\ dev' = [dev EXCEPT ![task.device] = pullOutcome(@, task, r.resp, now)]
       /\ reqs' = reqs (-) SetToBag({r})
  /\ tasks' = Without(tasks, t)
  /\ UNCHANGED <<store, sent, accepted, now, entries, answered>>

\* the timer of the push effect fires: 2062-2078, up to the await of the fetch
PushFire(d) ==
  LET c == dev[d]
      snapshot == buildLocalSnapshot(View(c), now)
  IN
  /\ sent < MaxSyncs /\ Cardinality(InFlight) < MaxInFlight
  /\ c.pushTimer
  /\ PushReceive(PushBody(shareCodeOf(c.profileId), c.profileId,
                          BaseRev(c.syncRevision), snapshot), sent + 1)
  /\ tasks' = (sent + 1) :>
       [device |-> d, kind |-> "push", trigger |-> "timer", pc |-> "first",
        closure |-> Null, snapshot |-> snapshot, base |-> c.syncRevision,
        conflict |-> Null, merged |-> Null] @@ tasks
  /\ dev' = [dev EXCEPT ![d] = [c EXCEPT !.pushTimer = FALSE, !.isSyncing = TRUE]]
  /\ UNCHANGED <<store, accepted, now, entries, answered>>

\* merged of lines 2084-2085
mergedForRetry(snapshot, conflictData) ==
  [mergeSnapshots(snapshot, conflictData.snapshot) EXCEPT
     !.revision = conflictData.revision]

retryBodyWithStaleBase(task, conflictData) ==
  PushBody(task.snapshot.shareCode, task.snapshot.profileId, BaseRev(task.base),
           mergedForRetry(task.snapshot, conflictData))

\* the body of the retry, lines 2090-2095
retryBody(task, conflictData) ==
  PushBody(task.snapshot.shareCode, task.snapshot.profileId,
           BaseRev(conflictData.revision),
           mergedForRetry(task.snapshot, conflictData))

\* the first answer is 409: lines 2079-2096, up to the await of the retry
PushConflict(t) ==
  LET task == tasks[t] IN
  /\ task.kind = "push" /\ task.pc = "first"
  /\ sent < MaxSyncs
  /\ \E r \in AnswerTo(t) :
       LET merged == mergedForRetry(task.snapshot, r.resp) IN
       /\ r.resp.status = 409
       /\ dev' = [dev EXCEPT ![task.device] = applySnapshot(@, merged, now)]
       /\ reqs' = (reqs (-) SetToBag({r})) (+)
                  SetToBag({pushArrival(retryBody(task, r.resp), t, now)})
       /\ tasks' = [tasks EXCEPT ![t] =
            [task EXCEPT !.pc = "retry", !.conflict = r.resp, !.merged = merged]]
  /\ sent' = sent + 1
  /\ UNCHANGED <<store, accepted, now, entries, answered>>

\* what the push callback does with the answer it ends on: 2097-2117
pushOutcome(c, resp, t) ==
  LET handled == IF resp.status = 200
                 THEN [applySnapshot(c, resp.snapshot, t) EXCEPT !.syncError = FALSE]
                 ELSE [c EXCEPT !.syncError = TRUE]
  IN [handled EXCEPT !.isSyncing = FALSE]

PushResponse(t) ==
  LET task == tasks[t] IN
  /\ task.kind = "push"
  /\ \E r \in AnswerTo(t) :
       /\ task.pc = "first" => r.resp.status # 409
       /\ dev' = [dev EXCEPT ![task.device] = pushOutcome(@, r.resp, now)]
       /\ reqs' = reqs (-) SetToBag({r})
  /\ tasks' = Without(tasks, t)
  /\ UNCHANGED <<store, sent, accepted, now, entries, answered>>

\* what fetch or response.json() throws is caught like a status that is not ok
FetchError == [status |-> 0, error |-> "fetch failed"]

\* a request that never reaches the server, or the answer to it
LostFor(t) == {r \in InFlight : r.from = t /\ r.pc \in {"select", "done"}}

\* the request of task t does not reach the server, or its answer is lost on the way
\* or cannot be parsed: the catch and finally blocks of the callback run (2045-2051,
\* 2113-2117, 2167-2171, 2202-2207, 3179-3184)
FetchFails(t) ==
  LET task == tasks[t] IN
  /\ \E r \in LostFor(t) : reqs' = reqs (-) SetToBag({r})
  /\ dev' = [dev EXCEPT ![task.device] =
       IF task.kind = "pull" THEN pullOutcome(@, task, FetchError, now)
       ELSE pushOutcome(@, FetchError, now)]
  /\ tasks' = Without(tasks, t)
  /\ UNCHANGED <<store, sent, accepted, now, entries, answered>>

\* the user edits an item: updateFoodState 2213-2222
updateFoodState(foodStates, id, patch, t) ==
  [foodStates EXCEPT ![id] = [patch @@ foodStates[id] EXCEPT !.updatedAt = t]]

\* the user removes the image they chose for a food: handleClearCustomImage 2700-2716
handleClearCustomImage(foodStates, id, t) ==
  IF foodStates[id].customImageUrl = "" THEN foodStates
  ELSE updateFoodState(foodStates, id,
         [customImageUrl |-> "", customImageAttribution |-> "",
          customImageAttributionUrl |-> "", imageGeneratedAt |-> 0, imageSource |-> ""],
         t)

toggleExposureAlwaysAdds(foodStates, id, index, t) ==
  LET current == foodStates[id] IN
  [foodStates EXCEPT ![id] =
     [current EXCEPT !.exposures = Append(current.exposures, t), !.updatedAt = t]]

\* the user clicks the exposure box at index: toggleExposure 2224-2244
toggleExposure(foodStates, id, index, t) ==
  LET current == foodStates[id]
      count == Len(current.exposures)
      nextCount == IF index < count THEN index
                   ELSE IF index = count THEN count + 1 ELSE count
      nextExposures == [idx \in 1..nextCount |->
                          IF idx <= count THEN current.exposures[idx] ELSE t]
  IN [foodStates EXCEPT ![id] =
        [current EXCEPT !.exposures = nextExposures, !.updatedAt = t]]

\* what the users edit: the notes of one food, the first exposure box of the other
Patches == { [notes |-> "tolerated well"] }
NotedFoods == {"f2"}
ToggledFoods == {"f1"}
ToggleIndexes == {0}

\* the user makes an edit at a later time than anything that happened before; the
\* new foodStates is a dependency of the push effect
EditFood(d) ==
  /\ now <= MaxEdits
  /\ now' = now + 1
  /\ \E id \in NotedFoods : \E patch \in Patches :
       dev' = [dev EXCEPT ![d] =
         rearm([@ EXCEPT !.foodStates = updateFoodState(@, id, patch, now')])]
  /\ UNCHANGED <<store, reqs, sent, accepted, tasks, entries, answered>>

ToggleExposure(d) ==
  /\ now <= MaxEdits
  /\ now' = now + 1
  /\ \E id \in ToggledFoods : \E index \in ToggleIndexes :
       dev' = [dev EXCEPT ![d] =
         rearm([@ EXCEPT !.foodStates = toggleExposure(@, id, index, now')])]
  /\ UNCHANGED <<store, reqs, sent, accepted, tasks, entries, answered>>

\* the devices from their start; a push is answered 409 only after more requests
\* than MaxSyncs allows from Init: the 409 branch is exercised by SharedNext
ClientNext ==
  \/ \E d \in Devices : \E trigger \in PullTriggers : ClientPull(d, trigger)
  \/ \E t \in DOMAIN tasks : PullResponse(t)
  \/ \E d \in Devices : PushFire(d)
  \/ \E t \in DOMAIN tasks : PushResponse(t)
  \/ \E d \in Devices : EditFood(d)
  \/ \E d \in Devices : ToggleExposure(d)
  \/ \E r \in InFlight : PullSelect(r)
  \/ \E r \in InFlight : PushSelect(r)
  \/ \E r \in InFlight : PushInsert(r)
  \/ \E r \in InFlight : PushUpdate(r)

(***************************************************************************)
(* The server under arbitrary concurrent callers                           *)
(***************************************************************************)

Init ==
  /\ store = << >>
  /\ reqs = EmptyBag
  /\ sent = 0
  /\ accepted = [k \in Keys |-> << >>]
  /\ now = 1
  /\ dev = [d \in Devices |-> LoadedClient(now)]
  /\ tasks = << >>
  /\ entries = << >>
  /\ answered = << >>

Next ==
  \/ SendPull
  \/ SendPush
  \/ \E r \in InFlight : PullSelect(r)
  \/ \E r \in InFlight : PushSelect(r)
  \/ \E r \in InFlight : PushInsert(r)
  \/ \E r \in InFlight : PushUpdate(r)
  \/ \E r \in InFlight : Forget(r)
  \/ Tick

Spec == Init /\ [][Next]_vars

\* the row the first push of a loaded client creates, at time t
createdRow(t) ==
  LET toSave == snapshotToSave(
        sanitizeSnapshotImages(buildLocalSnapshot(View(LoadedClient(t)), t), t), 1, t)
  IN [snapshot |-> toSave, revision |-> 1]

\* the device that created the row: its initial pull was answered 404, the timer of
\* its push effect fired and the push was accepted
creatorClient(t) ==
  LET pulling == [LoadedClient(t) EXCEPT !.isSyncing = TRUE, !.started = TRUE]
      task == [trigger |-> "initial", closure |-> View(LoadedClient(t))]
      pushing == [pullOutcome(pulling, task, NotFound, t) EXCEPT
                    !.pushTimer = FALSE, !.isSyncing = TRUE]
  IN pushOutcome(pushing, Accepted(createdRow(t).snapshot), t)

\* the device that joined: its initial pull was answered with the created row
joinedClient(t) ==
  LET pulling == [LoadedClient(t) EXCEPT !.isSyncing = TRUE, !.started = TRUE]
      task == [trigger |-> "initial", closure |-> View(LoadedClient(t))]
  IN pullOutcome(pulling, task, PullOk(createdRow(t)), t)

\* A has created the profile at revision 1 and B has pulled it: the state ClientNext
\* reaches from Init by A's initial pull, A's first push and B's initial pull
Synced ==
  /\ store = <<Profile1, Share1>> :> createdRow(1)
  /\ reqs = EmptyBag
  /\ sent = 0
  /\ accepted = [k \in Keys |-> IF k = <<Profile1, Share1>> THEN <<1>> ELSE << >>]
  /\ now = 1
  /\ dev = [d \in Devices |-> IF d = "A" THEN creatorClient(1) ELSE joinedClient(1)]
  /\ tasks = << >>
  /\ entries = << >>
  /\ answered = << >>

\* the server with the two devices as its only callers
ClientSpec == Init /\ [][ClientNext]_vars

\* the two devices after the profile is shared, while no pull trigger fires: the row
\* exists and rows are never deleted, so no push reaches the insert
SharedNext ==
  \/ \E d \in Devices : PushFire(d)
  \/ \E t \in DOMAIN tasks : PushConflict(t)
  \/ \E t \in DOMAIN tasks : PushResponse(t)
  \/ \E d \in Devices : EditFood(d)
  \/ \E d \in Devices : ToggleExposure(d)
  \/ \E r \in InFlight : PushSelect(r)
  \/ \E r \in InFlight : PushUpdate(r)

SharedSpec == Synced /\ [][SharedNext]_vars

\* the customFood of handleAddFood, 2293-2301
CustomFood(id) ==
  [id |-> id, name |-> "Kaki", family |-> "frutas", allergens |-> << >>,
   imageUrl |-> "", imageAttribution |-> "", imageAttributionUrl |-> ""]

\* one device on the shared profile while the other one is closed
Solo == {"B"}

\* the names of the seed foods and of the food the user adds, in the order of
\* localeCompare
CustomId == "c1"
NameRank == [f1 |-> 1, f2 |-> 2, c1 |-> 3]

\* sortOrderAlphabetically("asc"), 2258-2271
sortOrderAlphabetically(order) ==
  LET ranks == sortAscending({NameRank[id] : id \in Range(order)})
  IN [i \in 1..Len(ranks) |-> CHOOSE id \in Range(order) : NameRank[id] = ranks[i]]

\* the user adds a food of their own: handleAddFood 2279-2336
AddFood(d) ==
  LET c == dev[d]
      family == "frutas"
  IN
  /\ now <= MaxEdits
  /\ CustomId \notin DOMAIN c.foodStates
  /\ now' = now + 1
  /\ dev' = [dev EXCEPT ![d] = rearm([c EXCEPT
       !.customFoods = (CustomId :> CustomFood(CustomId)) @@ @,
       !.customFamilies = dedupe(Append(@, family)),
       !.familyOrder = IF family \in Range(@) THEN @ ELSE Append(@, family),
       !.foodStates = (CustomId :> InitialFood(now')) @@ @,
       !.order = sortOrderAlphabetically(dedupe(Append(@, CustomId))),
       !.orderUpdatedAt = now'])]
  /\ UNCHANGED <<store, reqs, sent, accepted, tasks, entries, answered>>

\* one device that adds a food of its own while it syncs
CustomNext ==
  \/ \E d \in Solo : \E trigger \in PullTriggers : ClientPull(d, trigger)
  \/ \E t \in DOMAIN tasks : PullResponse(t)
  \/ \E d \in Solo : PushFire(d)
  \/ \E t \in DOMAIN tasks : PushConflict(t)
  \/ \E t \in DOMAIN tasks : PushResponse(t)
  \/ \E d \in Solo : AddFood(d)
  \/ \E r \in InFlight : PullSelect(r)
  \/ \E r \in InFlight : PushSelect(r)
  \/ \E r \in InFlight : PushUpdate(r)

CustomSpec == Synced /\ [][CustomNext]_vars

\* with pulls, pushes, edits and answers that get lost

SoloNext ==
  \/ \E d \in Solo : \E trigger \in PullTriggers : ClientPull(d, trigger)
  \/ \E t \in DOMAIN tasks : PullResponse(t)
  \/ \E d \in Solo : PushFire(d)
  \/ \E t \in DOMAIN tasks : PushConflict(t)
  \/ \E t \in DOMAIN tasks : PushResponse(t)
  \/ \E t \in DOMAIN tasks : FetchFails(t)
  \/ \E d \in Solo : EditFood(d)
  \/ \E r \in InFlight : PullSelect(r)
  \/ \E r \in InFlight : PushSelect(r)
  \/ \E r \in InFlight : PushUpdate(r)

SoloSpec == Synced /\ [][SoloNext]_vars

\* the user picks another theme in the settings dialog: setTheme, 3792
ChangeSetting(d) ==
  LET c == dev[d] IN
  /\ now <= MaxEdits
  /\ \E theme \in {"dark"} :
       /\ theme # c.settings.theme
       /\ dev' = [dev EXCEPT ![d] = rearm([c EXCEPT !.settings.theme = theme])]
  /\ now' = now + 1
  /\ UNCHANGED <<store, reqs, sent, accepted, tasks, entries, answered>>

\* the two devices on the shared profile while the user of A changes settings
Changer == {"A"}

SettingsNext ==
  \/ \E d \in Devices \ Changer : ClientPull(d, "manual")
  \/ \E t \in DOMAIN tasks : PullResponse(t)
  \/ \E d \in Devices : PushFire(d)
  \/ \E t \in DOMAIN tasks : PushConflict(t)
  \/ \E t \in DOMAIN tasks : PushResponse(t)
  \/ \E d \in Changer : ChangeSetting(d)
  \/ \E r \in InFlight : PullSelect(r)
  \/ \E r \in InFlight : PushSelect(r)
  \/ \E r \in InFlight : PushUpdate(r)

SettingsSpec == Synced /\ [][SettingsNext]_vars

\* the second and third of the three exposure boxes of the food detail, 4671-4686
BoxIndexes == 1..2
MaxToggleTime == 3  \* the time of the last toggle of one behaviour

\* the user clicks one of the boxes of f1
ToggleBox(d) ==
  /\ now <= MaxToggleTime
  /\ now' = now + 1
  /\ \E id \in ToggledFoods : \E index \in BoxIndexes :
       dev' = [dev EXCEPT ![d] =
         rearm([@ EXCEPT !.foodStates = toggleExposure(@, id, index, now')])]
  /\ UNCHANGED <<store, reqs, sent, accepted, tasks, entries, answered>>

\* the user of A ticked two boxes of f1, at times 1 and 2, before the first push
TickedClient ==
  [LoadedClient(1) EXCEPT
     !.foodStates = toggleExposure(toggleExposure(@, "f1", 0, 1), "f1", 1, 2)]

tickedRow ==
  LET toSave == snapshotToSave(
        sanitizeSnapshotImages(buildLocalSnapshot(View(TickedClient), 2), 2), 1, 2)
  IN [snapshot |-> toSave, revision |-> 1]

\* A has created the profile with the two ticks and B has pulled it
Ticked ==
  LET task(c) == [trigger |-> "initial", closure |-> View(c)]
      pulling(c) == [c EXCEPT !.isSyncing = TRUE, !.started = TRUE]
      pushing == [pullOutcome(pulling(TickedClient), task(TickedClient), NotFound, 2)
                    EXCEPT !.pushTimer = FALSE, !.isSyncing = TRUE]
  IN
  /\ store = <<Profile1, Share1>> :> tickedRow
  /\ reqs = EmptyBag
  /\ sent = 0
  /\ accepted = [k \in Keys |-> IF k = <<Profile1, Share1>> THEN <<1>> ELSE << >>]
  /\ now = 2
  /\ dev = [d \in Devices |->
              IF d = "A" THEN pushOutcome(pushing, Accepted(tickedRow.snapshot), 2)
              ELSE pullOutcome(pulling(LoadedClient(2)), task(LoadedClient(2)),
                               PullOk(tickedRow), 2)]
  /\ tasks = << >>
  /\ entries = << >>
  /\ answered = << >>

\* the two devices on the shared profile while their users tick exposures: A pushes
\* its ticks and B pulls
ExposureNext ==
  \/ \E d \in Devices \ Changer : ClientPull(d, "manual")
  \/ \E t \in DOMAIN tasks : PullResponse(t)
  \/ \E d \in Changer : PushFire(d)
  \/ \E t \in DOMAIN tasks : PushConflict(t)
  \/ \E t \in DOMAIN tasks : PushResponse(t)
  \/ \E d \in Devices : ToggleBox(d)
  \/ \E r \in InFlight : PullSelect(r)
  \/ \E r \in InFlight : PushSelect(r)
  \/ \E r \in InFlight : PushUpdate(r)

ExposureSpec == Ticked /\ [][ExposureNext]_vars

\* the user selects another profile, one this device has never opened: profileId
\* changes, the cleanups of the effects run (the timer of the push effect is cleared,
\* isMounted of the initial pull turns false) and the profile load effect 1566-1642
\* puts createSnapshot(profile) on the screen
SwitchProfile(d) ==
  LET c == dev[d] IN
  /\ c.profileId = Profile1
  /\ dev' = [dev EXCEPT ![d] =
       [LoadedClient(now) EXCEPT !.profileId = Profile2, !.isSyncing = c.isSyncing]]
  /\ tasks' = [t \in DOMAIN tasks |->
       IF tasks[t].device = d /\ tasks[t].trigger = "initial"
       THEN [tasks[t] EXCEPT !.trigger = "unmounted"] ELSE tasks[t]]
  /\ UNCHANGED <<store, reqs, sent, accepted, now, entries, answered>>

\* one device from its start: its user edits the first profile and then switches to
\* a second one while the device syncs
SwitchNext ==
  \/ \E d \in Solo : \E trigger \in {"initial", "manual"} : ClientPull(d, trigger)
  \/ \E t \in DOMAIN tasks : PullResponse(t)
  \/ \E d \in Solo : PushFire(d)
  \/ \E t \in DOMAIN tasks : PushResponse(t)
  \/ \E d \in Solo : SwitchProfile(d)
  \/ \E d \in Solo : dev[d].profileId = Profile1 /\ EditFood(d)
  \/ \E r \in InFlight : PullSelect(r)
  \/ \E r \in InFlight : PushSelect(r)
  \/ \E r \in InFlight : PushInsert(r)
  \/ \E r \in InFlight : PushUpdate(r)

SwitchSpec == Init /\ [][SwitchNext]_vars

(***************************************************************************)
(* Pushes of snapshots whose item f1 has an image the user chose           *)
(***************************************************************************)
MaxImagePushes == 2

ImageUrls == {UrlWiki, UrlOther, UrlBad, UrlData, UrlBlank}
ImageAttributions == {"", "URL manual", UrlBlank, "Foto: Ana"}

FoodsImage(url, attribution) ==
  [FoodsPlain EXCEPT !["f1"] =
     [@ EXCEPT !.customImageUrl = url, !.customImageAttribution = attribution,
               !.customImageAttributionUrl = "https://ana.example",
               !.imageSource = "manual-url", !.imageGeneratedAt = 1]]

ImageSnapshots ==
  {ObjectSnapshot(Profile1, FoodsImage(url, attribution), 0) :
     url \in ImageUrls, attribution \in ImageAttributions}

ImagePushBodies ==
  {PushBody(Share1, Profile1, BaseRev(n), snapshot) :
     n \in 0..1, snapshot \in ImageSnapshots \cup {SnapPlain}}
  \cup {PushBody(Share1, Profile1, BaseRev(1), SnapOverLimit)}

SendImagePush ==
  /\ sent < MaxImagePushes
  /\ \E body \in ImagePushBodies : PushReceive(body, 0)
  /\ UNCHANGED <<store, accepted, now, dev, tasks, entries, answered>>

ImageNext ==
  \/ SendImagePush
  \/ \E r \in InFlight : PushSelect(r)
  \/ \E r \in InFlight : PushInsert(r)
  \/ \E r \in InFlight : PushUpdate(r)
  \/ \E r \in InFlight : Forget(r)

ImageSpec == Init /\ [][ImageNext]_vars

(***************************************************************************)
(* The merge engine on its own: one callback holds a local and a remote    *)
(* snapshot and merges them (App.tsx 744-869)                              *)
(***************************************************************************)
\* item states as toggleExposure, updateFoodState and the description generator
\* leave them: exposure lists in the order of the clicks, at most three
ItemEarly ==
  [InitialFood(1) EXCEPT !.exposures = <<1>>]
ItemNotedLate ==
  [InitialFood(4) EXCEPT !.notes = "tolerated well", !.isHidden = TRUE,
     !.exposures = <<1, 3, 5>>, !.description = "first text", !.reactions = "none",
     !.descriptionGeneratedAt = 1, !.descriptionModel = "model-1"]
ItemDescribedLate ==
  [InitialFood(2) EXCEPT !.exposures = <<2, 3>>, !.description = "second text",
     !.reactions = "rash", !.descriptionGeneratedAt = 3, !.descriptionModel = "model-2"]
ItemSameTime ==
  [InitialFood(4) EXCEPT !.notes = "refused", !.exposures = <<2, 4, 6>>]

\* an item with an image the user chose, and the same item after the user removed it
ItemImaged ==
  [InitialFood(2) EXCEPT !.customImageUrl = UrlOther,
     !.customImageAttribution = "Imagen manual", !.customImageAttributionUrl = UrlOther,
     !.imageGeneratedAt = 2, !.imageSource = "manual"]
ItemImageCleared == handleClearCustomImage("f1" :> ItemImaged, "f1", 5)["f1"]

\* ItemDescribedLate after its user unticked the second box at time 5
ItemUnticked == toggleExposure("f1" :> ItemDescribedLate, "f1", 1, 5)["f1"]

MergeItems ==
  {ItemEarly, ItemNotedLate, ItemDescribedLate, ItemSameTime, ItemImaged, ItemImageCleared,
   ItemUnticked}

MergeIdSets == {{"f1"}, {"f2"}, {"f1", "f2"}}
MergeFoods == UNION {[ids -> MergeItems] : ids \in MergeIdSets}

\* what buildLocalSnapshot gives for an untouched profile, and for one that was
\* reordered, switched to the dark theme and given a custom family, later
SnapshotOf(foods, late) ==
  IF late
  THEN [ObjectSnapshot(Profile1, foods, 0) EXCEPT
          !.updatedAt = 3, !.order = <<"f2", "f1">>, !.meta = [orderUpdatedAt |-> 2],
          !.settings = [DefaultSettings EXCEPT !.theme = "dark"],
          !.customFoods = "c1" :> CustomFood("c1"),
          !.customFamilies = <<"frutas">>, !.familyOrder = <<"frutas">>]
  ELSE ObjectSnapshot(Profile1, foods, 0)

MergeSnapshotInputs == {SnapshotOf(foods, late) : foods \in MergeFoods, late \in BOOLEAN}

\* snapshots of one profile that differ in their order: untouched, untouched with
\* settings changed later, reordered at the same time, reordered later, and reordered
\* by a client that wrote no meta
OrderSnapshots ==
  LET plain == ObjectSnapshot(Profile1, buildInitialState(1), 0) IN
  {plain,
   [plain EXCEPT !.updatedAt = 3],
   [plain EXCEPT !.order = <<"f2", "f1">>],
   SnapshotOf(buildInitialState(1), TRUE),
   [plain EXCEPT !.order = <<"f2", "f1">>, !.updatedAt = 2,
                 !.meta = [orderUpdatedAt |-> 0]]}

MergePairs ==
  (MergeSnapshotInputs \X MergeSnapshotInputs)
    \cup {pair \in OrderSnapshots \X OrderSnapshots : pair[1] # pair[2]}

MergeTask(local, remote) ==
  [device |-> "A", kind |-> "merge", trigger |-> "merge", pc |-> "first",
   closure |-> Null, snapshot |-> local, base |-> 0,
   conflict |-> [snapshot |-> remote], merged |-> Null]

MergeInit ==
  /\ store = << >> /\ reqs = EmptyBag /\ sent = 0
  /\ accepted = [k \in Keys |-> << >>]
  /\ now = 1
  /\ dev = [d \in Devices |-> LoadedClient(1)]
  /\ \E pair \in MergePairs : tasks = 1 :> MergeTask(pair[1], pair[2])
  /\ entries = << >>
  /\ answered = << >>

\* mergeSnapshots(local, remote) is computed
Merge(t) ==
  /\ tasks[t].pc = "first"
  /\ tasks' = [tasks EXCEPT ![t] =
       [tasks[t] EXCEPT !.pc = "merged",
          !.merged = mergeSnapshots(tasks[t].snapshot, tasks[t].conflict.snapshot)]]
  /\ UNCHANGED <<store, reqs, sent, accepted, now, dev, entries, answered>>

MergeNext == \E t \in DOMAIN tasks : Merge(t)

MergeSpec == MergeInit /\ [][MergeNext]_vars

(***************************************************************************)
(* The other copy of the client (src/unnamed/part_002): its push effect is *)
(* the one of App.tsx plus two calls of setLastSyncAt                      *)
(***************************************************************************)
\* what its push callback does with the answer it ends on: part_002 1806-1829
pushOutcomeWithLastSync(c, resp, t) ==
  IF resp.status = 200
  THEN [pushOutcome(c, resp, t) EXCEPT !.lastSyncAt = t]
  ELSE pushOutcome(c, resp, t)

PushResponseWithLastSync(t) ==
  LET task == tasks[t] IN
  /\ task.kind = "push"
  /\ \E r \in AnswerTo(t) :
       /\ task.pc = "first" => r.resp.status # 409
       /\ dev' = [dev EXCEPT ![task.device] = pushOutcomeWithLastSync(@, r.resp, now)]
       /\ reqs' = reqs (-) SetToBag({r})
  /\ tasks' = Without(tasks, t)
  /\ UNCHANGED <<store, sent, accepted, now, entries, answered>>

\* one device running that copy pushes its edits to the shared profile
OtherCopyNext ==
  \/ \E d \in Solo : PushFire(d)
  \/ \E t \in DOMAIN tasks : PushConflict(t)
  \/ \E t \in DOMAIN tasks : PushResponseWithLastSync(t)
  \/ \E d \in Solo : EditFood(d)
  \/ \E r \in InFlight : PushSelect(r)
  \/ \E r \in InFlight : PushUpdate(r)

OtherCopySpec == Synced /\ [][OtherCopyNext]_vars

(***************************************************************************)
(* The fail blocker in front of the sync routes: createProgressiveBlocker  *)
(* (app.ts), with options as FAIL_BLOCK_* of the environment may set them   *)
(***************************************************************************)
threshold == 2
baseBlockMs == 200
maxBlockMs == 400
resetMs == 600

\* the clock of this part runs in steps of ClockStepMs up to MaxBlockTime, and at
\* most MaxBlockReqs requests arrive
ClockStepMs == 100
MaxBlockTime == 800
MaxBlockReqs == 3

ClientIps == {"ip1", "ip2"}

\* what the sync routes and the limiter behind the blocker answer
HandlerStatuses == {200, 400, 404, 409}

shouldCountStatusAi(statusCode) == statusCode \in {400, 401, 403}

\* syncFailBlocker: [400, 401, 403, 404].includes(statusCode)
shouldCountStatus(statusCode) == statusCode \in {400, 401, 403, 404}

Restrict(f, keys) == [k \in DOMAIN f \cap keys |-> f[k]]

isIdleAndUnblocked(entry, t) == t - entry.updatedAt > resetMs /\ entry.blockedUntil <= t

\* clearExpired, run by setInterval
ClearExpired ==
  /\ \E ip \in DOMAIN entries : isIdleAndUnblocked(entries[ip], now)
  /\ entries' = Restrict(entries, {ip \in DOMAIN entries :
                                     ~isIdleAndUnblocked(entries[ip], now)})
  /\ UNCHANGED <<store, reqs, sent, accepted, now, dev, tasks, answered>>

\* Math.ceil(ms / 1000)
ceilSeconds(ms) == (ms + 999) \div 1000

\* the middleware runs for a request of ip: it answers 429 or calls next()
BlockerArrive(ip) ==
  LET kept == IF ip \in DOMAIN entries /\ isIdleAndUnblocked(entries[ip], now)
              THEN Restrict(entries, DOMAIN entries \ {ip})
              ELSE entries
      blocked == ip \in DOMAIN kept /\ kept[ip].blockedUntil > now
      request == IF blocked
                 THEN [route |-> "sync", ip |-> ip, pc |-> "blocked",
                       status |-> 429, retryAfter |-> ceilSeconds(kept[ip].blockedUntil - now)]
                 ELSE [route |-> "sync", ip |-> ip, pc |-> "handler",
                       status |-> 0, retryAfter |-> 0]
  IN
  /\ sent < MaxBlockReqs /\ Cardinality(InFlight) < MaxInFlight
  /\ sent' = sent + 1
  /\ entries' = kept
  /\ reqs' = reqs (+) SetToBag({request})
  /\ UNCHANGED <<store, accepted, now, dev, tasks, answered>>

\* the entry after an answer that counts as a failure
nextEntry(currentEntry, timestamp) ==
  LET failures == currentEntry.failures + 1
      multiplier == IF failures - threshold > 0 THEN failures - threshold ELSE 0
      blockMs == IF baseBlockMs * 2 ^ multiplier < maxBlockMs
                 THEN baseBlockMs * 2 ^ multiplier ELSE maxBlockMs
  IN [failures |-> failures, updatedAt |-> timestamp,
      blockedUntil |-> IF failures >= threshold THEN timestamp + blockMs
                       ELSE currentEntry.blockedUntil]

\* the last threshold answers of the handler to ip
Latest(log) == IF Len(log) < threshold THEN log ELSE SubSeq(log, Len(log) - threshold + 1, Len(log))

\* the route handler answers request r: the "finish" listener runs
HandlerFinish(r, statusCode) ==
  LET ip == r.ip
      fresh == [failures |-> 0, blockedUntil |-> 0, updatedAt |-> now]
  IN
  /\ r.pc = "handler"
  /\ reqs' = reqs (-) SetToBag({r})
  /\ entries' =
       IF statusCode >= 200 /\ statusCode < 400
       THEN Restrict(entries, DOMAIN entries \ {ip})
       ELSE IF ~shouldCountStatus(statusCode) THEN entries
       ELSE (ip :> nextEntry(IF ip \in DOMAIN entries THEN entries[ip] ELSE fresh, now))
              @@ entries
  /\ answered' = [answered EXCEPT ![ip] =
                    Latest(Append(@, [status |-> statusCode, at |-> now]))]
  /\ UNCHANGED <<store, sent, accepted, now, dev, tasks>>

\* the 429 of the blocker is delivered
BlockedDelivered(r) ==
  /\ r.pc = "blocked"
  /\ reqs' = reqs (-) SetToBag({r})
  /\ UNCHANGED <<store, sent, accepted, now, dev, tasks, entries, answered>>

BlockTick ==
  /\ now < MaxBlockTime
  /\ now' = now + ClockStepMs
  /\ UNCHANGED <<store, reqs, sent, accepted, dev, tasks, entries, answered>>

BlockInit ==
  /\ store = << >> /\ reqs = EmptyBag /\ sent = 0
  /\ accepted = [k \in Keys |-> << >>]
  /\ now = 0
  /\ dev = [d \in Devices |-> LoadedClient(1)]
  /\ tasks = << >>
  /\ entries = << >>
  /\ answered = [ip \in ClientIps |-> << >>]

BlockNext ==
  \/ \E ip \in ClientIps : BlockerArrive(ip)
  \/ \E r \in InFlight : \E statusCode \in HandlerStatuses : HandlerFinish(r, statusCode)
  \/ \E r \in InFlight : BlockedDelivered(r)
  \/ ClearExpired
  \/ BlockTick

BlockSpec == BlockInit /\ [][BlockNext]_vars

(***************************************************************************)
(* POST /api/backup/import: replaces the whole table by the backup's rows  *)
(***************************************************************************)
BackupRow(profileId, revision, updatedAt, snapshot) ==
  [profileId |-> profileId, shareCode |-> Share1, revision |-> revision,
   updatedAt |-> updatedAt, snapshot |-> snapshot]

Backups ==
  { << >>,
    <<BackupRow(Profile1, 1, 1, SnapNote)>>,
    <<BackupRow(Profile1, 2, 1, SnapNote)>>,     \* the column is ahead of the document
    <<BackupRow(Profile1, 0 - 1, 1, SnapNote)>>, \* negative revision
    <<BackupRow(Profile1, 1, 0, SnapNote)>>,     \* empty updatedAt
    <<BackupRow(Profile1, 1, 1, SnapArray)>>,    \* not a plain object: the row is dropped
    <<BackupRow(Profile1, 1, 1, SnapNote), BackupRow(Profile1, 2, 1, SnapPlain)>> }

isPlainObject(value) == value.kind = "object"

parsedRows(rows) == SelectSeq(rows, LAMBDA row : isPlainObject(row.snapshot))

backupIsInvalid(rows) ==
  \E i \in 1..Len(parsedRows(rows)) :
    LET row == parsedRows(rows)[i] IN
    \/ row.profileId = NoToken
    \/ row.shareCode = NoToken
    \/ row.revision < 0
    \/ row.updatedAt = 0

\* the inserts of lines 95-101 violate the primary key
backupHasDuplicateKey(rows) ==
  \E i, j \in 1..Len(parsedRows(rows)) :
    i # j /\ KeyOf(parsedRows(rows)[i]) = KeyOf(parsedRows(rows)[j])

importedTable(rows) ==
  LET rs == parsedRows(rows) IN
  [k \in {KeyOf(rs[i]) : i \in 1..Len(rs)} |->
     LET row == rs[CHOOSE i \in 1..Len(rs) : KeyOf(rs[i]) = k]
     IN [snapshot |-> row.snapshot, revision |-> row.revision]]

\* the transaction of lines 92-110 commits, or rolls back, as one step
BackupImport ==
  /\ \E rows \in Backups :
       store' = IF backupIsInvalid(rows) \/ backupHasDuplicateKey(rows)
                THEN store
                ELSE importedTable(rows)
  /\ UNCHANGED <<reqs, sent, accepted, now, dev, tasks, entries, answered>>

\* the administrator imports backups while callers pull
NextAdmin ==
  \/ BackupImport
  \/ SendPull
  \/ \E r \in InFlight : PullSelect(r)
  \/ \E r \in InFlight : Forget(r)

AdminSpec == Init /\ [][NextAdmin]_vars

\* the devices open the profile and pull while the administrator imports backups
RestoreNext ==
  \/ BackupImport
  \/ \E d \in Devices : \E trigger \in {"initial", "manual"} : ClientPull(d, trigger)
  \/ \E r \in InFlight : PullSelect(r)
  \/ \E t \in DOMAIN tasks : PullResponse(t)

RestoreSpec == Init /\ [][RestoreNext]_vars

(***************************************************************************)
(* Claims about the sync routes                                            *)
(***************************************************************************)
PushesIn(bag) == {r \in BagToSet(bag) : r.route = "push"}
PullsIn(bag) == {r \in BagToSet(bag) : r.route = "pull"}

\* the handler of r took a step in this transition
Stepped(r) == CopiesIn(r, reqs') < CopiesIn(r, reqs)
\* q is the state of a handler after its step in this transition
Arrived(q) == CopiesIn(q, reqs') > CopiesIn(q, reqs)

\* C1: for each (profileId, shareCode) the revisions of the Accepted push responses
\* are 1, 2, 3, ... in the order they are given, and the stored revision is the
\* number of accepted pushes (it moves only by +1, on an accepted push).
C1_RevisionsIncreaseByOne ==
  \A k \in Keys :
    /\ \A n \in 1..Len(accepted[k]) : accepted[k][n] = n
    /\ k \in DOMAIN store => store[k].revision = Len(accepted[k])
    /\ k \notin DOMAIN store => accepted[k] = << >>

\* C2: no two pushes to one row are both answered Accepted with the same new
\* revision (of two interleaved pushes carrying the stored revision as baseRevision,
\* one is Accepted and the other gets Conflict).
C2_NeverTwoAcceptedAtOneRevision ==
  \A k \in Keys :
    \A m, n \in 1..Len(accepted[k]) : m # n => accepted[k][m] # accepted[k][n]

\* C3: when the select of a push finds a row whose revision R differs from the
\* baseRevision, the handler answers 409 with the stored snapshot and R, and the
\* table is left as it was.
C3_ConflictStep ==
  \A r \in PushesIn(reqs) :
    ( /\ r.pc = "select"
      /\ Stepped(r)
      /\ KeyOf(r.body) \in DOMAIN store
      /\ r.body.baseRevision.val # store[KeyOf(r.body)].revision )
    => /\ store' = store
       /\ accepted' = accepted
       /\ \E q \in PushesIn(reqs') :
            /\ Arrived(q)
            /\ q.body = r.body /\ q.from = r.from
            /\ q.pc = "done"
            /\ q.resp.status = 409
            /\ q.resp.snapshot = store[KeyOf(r.body)].snapshot
            /\ q.resp.revision = store[KeyOf(r.body)].revision

C3_ConflictLeavesRowUnchanged == [][C3_ConflictStep]_vars

\* a 409 answer whose stored snapshot differs in its items from the one submitted,
\* for a baseRevision behind and one ahead of the stored revision
C3_Witness ==
  \E r \in PushesIn(reqs) :
    /\ r.resp.status = 409
    /\ r.resp.snapshot.foods # r.body.snapshot.foods
    /\ r.body.baseRevision.val > r.resp.revision

\* C4: a push whose select found no row for the pair ends answered Accepted with
\* revision 1, and the row exists.
C4_FirstPushCreatesRevisionOne ==
  \A r \in PushesIn(reqs) :
    (r.queries = 2 /\ r.existing = Null /\ r.pc \in {"done", "hung"})
    => /\ r.pc = "done"
       /\ r.resp.status = 200
       /\ r.resp.revision = 1
       /\ KeyOf(r.body) \in DOMAIN store

\* what the claim calls malformed, stated on the body
MalformedPull(body) ==
  \/ body.shareCode \in MalformedTokens \cup {NoToken}
  \/ body.profileId \in MalformedTokens

MalformedPush(body) ==
  \/ body.shareCode \in MalformedTokens \cup {NoToken}
  \/ body.profileId \in MalformedTokens \cup {NoToken}
  \/ body.snapshot.kind # "object"
  \/ JsonLength(body.snapshot) > 1000000
  \/ body.baseRevision.type # "number"
  \/ ~body.baseRevision.integer
  \/ body.baseRevision.val < 0

Malformed(r) ==
  IF r.route = "pull" THEN MalformedPull(r.body) ELSE MalformedPush(r.body)

C5_ValidationStep ==
  /\ \A q \in BagToSet(reqs') :
       Malformed(q) => q.pc = "done" /\ q.resp.status = 400 /\ q.queries = 0
  /\ (\E q \in BagToSet(reqs') : Arrived(q) /\ Malformed(q)) => store' = store

C6_PullStep ==
  \A r \in PullsIn(reqs) :
    (r.pc = "select" /\ Stepped(r))
    => /\ store' = store
       /\ \E q \in PullsIn(reqs') :
            /\ Arrived(q) /\ q.body = r.body /\ q.from = r.from /\ q.pc = "done"
            /\ IF pullCandidates(r.body) = {}
               THEN q.resp.status = 404
               ELSE \E k \in pullCandidates(r.body) :
                      /\ q.resp.status = 200
                      /\ q.resp.snapshot = store[k].snapshot
                      /\ q.resp.snapshot.revision = store[k].revision

\* C6: a pull leaves the table unchanged, answers 404 when no row matches, and
\* otherwise returns the stored snapshot, whose revision is the row's revision.
C6_PullReturnsCurrentRevision == [][C6_PullStep]_vars

TheKey == <<Profile1, Share1>>
PushTasks == {t \in DOMAIN tasks : tasks[t].kind = "push"}
PullTasks == {t \in DOMAIN tasks : tasks[t].kind = "pull"}

\* the retry of task t is answered Accepted in the scenario: t's first push carried
\* baseRevision 1 and a note on item j and was answered 409 with revision 2, whose
\* snapshot has an exposure on item i; neither side touched the other's item
C7_Scenario(t, r, i, j) ==
  LET task == tasks[t] IN
  /\ i # j
  /\ task.pc = "retry" /\ task.base = 1
  /\ task.snapshot.foods[j].notes # ""
  /\ task.snapshot.foods[i] = InitialFood(1)
  /\ task.conflict.revision = 2
  /\ task.conflict.snapshot.foods[i].exposures # << >>
  /\ task.conflict.snapshot.foods[j] = InitialFood(1)
  /\ r.resp.status = 200

C7_HasBoth(snapshot, task, i, j) ==
  /\ snapshot.foods[i].exposures = task.conflict.snapshot.foods[i].exposures
  /\ snapshot.foods[j].notes = task.snapshot.foods[j].notes

\* C7: in the two-device scenario B's retry carries baseRevision 2, is accepted at
\* revision 3, and the snapshot stored at revision 3 has A's exposure and B's note.
C7_ScenarioStoresBothEdits ==
  \A t \in PushTasks : \A r \in AnswerTo(t) : \A i, j \in Foods :
    C7_Scenario(t, r, i, j)
    => /\ r.body.baseRevision = BaseRev(2)
       /\ r.resp.revision = 3
       /\ C7_HasBoth(r.resp.snapshot, tasks[t], i, j)
       /\ store[TheKey].revision = 3 => C7_HasBoth(store[TheKey].snapshot, tasks[t], i, j)

\* the part of C7 about the retry and its answer alone
C7_RetryAnswerHasBothEdits ==
  \A t \in PushTasks : \A r \in AnswerTo(t) : \A i, j \in Foods :
    C7_Scenario(t, r, i, j)
    => /\ r.body.baseRevision = BaseRev(2)
       /\ r.resp.revision = 3
       /\ C7_HasBoth(r.resp.snapshot, tasks[t], i, j)

C7_ScenarioReached ==
  \E t \in PushTasks : \E r \in AnswerTo(t) : \E i, j \in Foods :
    C7_Scenario(t, r, i, j)

\* a push request is sent in this transition: by a timer that fires, with the
\* revision cursor as baseRevision, or as the retry of a first push answered 409,
\* with the merge of its snapshot and the conflict snapshot and the conflict revision
C8_SendStep ==
  \A q \in PushesIn(reqs') :
    (sent' # sent /\ Arrived(q))
    => IF q.from \notin DOMAIN tasks
       THEN /\ tasks'[q.from].pc = "first"
            /\ q.body.baseRevision = BaseRev(dev[tasks'[q.from].device].syncRevision)
       ELSE /\ tasks[q.from].pc = "first"
            /\ tasks'[q.from].pc = "retry"
            /\ \E r \in AnswerTo(q.from) :
                 /\ Stepped(r)
                 /\ r.resp.status = 409
                 /\ q.body.baseRevision = BaseRev(r.resp.revision)
                 /\ q.body.snapshot =
                      [mergeSnapshots(tasks[q.from].snapshot, r.resp.snapshot)
                         EXCEPT !.revision = r.resp.revision]

\* the callback of a push trigger takes its answer in this transition: a 409 to the
\* first push is followed by the retry; any other answer ends the trigger with no
\* request sent, and the answer to a retry sets the error flag exactly when it is
\* not Accepted
C8_AnswerStep ==
  \A t \in PushTasks : \A r \in AnswerTo(t) :
    Stepped(r)
    => IF tasks[t].pc = "first" /\ r.resp.status = 409
       THEN sent' = sent + 1 /\ t \in DOMAIN tasks'
       ELSE /\ sent' = sent
            /\ t \notin DOMAIN tasks'
            /\ tasks[t].pc = "retry"
                 => dev'[tasks[t].device].syncError = (r.resp.status # 200)

\* C8: a push trigger sends at most two requests: the first with the revision
\* cursor; after a 409 exactly one retry with the merged snapshot and the conflict
\* revision; the answer to the retry ends the trigger, with the error flag set if
\* and only if the retry was not accepted.
C8_MergeAndSingleRetry == [][C8_SendStep /\ C8_AnswerStep]_vars

\* a retry was rejected: the error flag is set, and the trigger is over
C8_Witness ==
  \E d \in Devices :
    /\ dev[d].syncError
    /\ \A t \in PushTasks : tasks[t].device # d

\* C9: adopting the answer to an accepted push does not by itself schedule another
\* push: when no timer of the push effect is pending before the callback adopts an
\* Accepted answer, none is pending after it.
C9_AdoptStep ==
  \A t \in PushTasks : \A r \in AnswerTo(t) :
    (Stepped(r) /\ r.resp.status = 200 /\ ~dev[tasks[t].device].pushTimer)
    => ~dev'[tasks[t].device].pushTimer

C9_AdoptingSchedulesNoPush == [][C9_AdoptStep]_vars

\* C10: a device has at most one pull and at most one push in flight at any time.
C10_OnePullAndOnePushInFlight ==
  \A d \in Devices :
    /\ Cardinality({t \in PullTasks : tasks[t].device = d}) <= 1
    /\ Cardinality({t \in PushTasks : tasks[t].device = d}) <= 1

(***************************************************************************)
(* C11: a failed pull or push sets the error flag and leaves the local     *)
(* items, order, settings and revision cursor as they were, and a          *)
(* successful pull that follows a failed sync loses no local edit.         *)
(***************************************************************************)
\* the step that handles the failure of the request r of task t
C11_Failed(t, r) ==
  /\ r \in LostFor(t)
  /\ r.pc = "select" \/ r.resp.status \notin {200, 404}
  /\ reqs' = reqs (-) SetToBag({r})
  /\ t \notin DOMAIN tasks'

C11_FailureStep ==
  \A t \in DOMAIN tasks : \A r \in InFlight :
    C11_Failed(t, r) =>
      /\ dev'[tasks[t].device].syncError
      /\ View(dev'[tasks[t].device]) = View(dev[tasks[t].device])

\* the step that adopts the answer r of a pull of task t while the error flag of an
\* earlier failed sync is still set
C11_PulledAfterFailure(t, r) ==
  /\ tasks[t].kind = "pull"
  /\ r \in AnswerTo(t) /\ r.resp.status = 200
  /\ dev[tasks[t].device].syncError
  /\ reqs' = reqs (-) SetToBag({r})
  /\ t \notin DOMAIN tasks'
  /\ ~dev'[tasks[t].device].syncError

\* every item the device edited later than the pulled copy of it keeps its edit
C11_EditsKept(d, pulled) ==
  \A f \in DOMAIN dev[d].foodStates :
    (f \in DOMAIN pulled.foods => dev[d].foodStates[f].updatedAt > pulled.foods[f].updatedAt)
      => /\ f \in DOMAIN dev'[d].foodStates
         /\ dev'[d].foodStates[f].notes = dev[d].foodStates[f].notes
         /\ dev'[d].foodStates[f].updatedAt = dev[d].foodStates[f].updatedAt

C11_PullStep ==
  \A t \in DOMAIN tasks : \A r \in InFlight :
    C11_PulledAfterFailure(t, r) => C11_EditsKept(tasks[t].device, r.resp.snapshot)

C11_FailureKeepsLocalState == [][C11_FailureStep]_vars

\* C11: a failed pull or push sets the error flag and changes nothing else of the
\* local state, and no later sync step removes an edit the device had not yet pushed
C11_FailedSyncLosesNoEdit == [][C11_FailureStep /\ C11_PullStep]_vars

(***************************************************************************)
(* C12: after the answer Accepted to a push has been handled the local     *)
(* state is the returned snapshot and the cursor is the returned revision, *)
(* so that, no other device having written, the cursor is the stored       *)
(* revision and the next push is accepted.                                 *)
(***************************************************************************)
\* the step in which the push callback of task t adopts the answer Accepted
C12_AcceptedStep(t, r) ==
  /\ tasks[t].kind = "push"
  /\ r \in AnswerTo(t) /\ r.resp.status = 200
  /\ reqs' = reqs (-) SetToBag({r})
  /\ t \notin DOMAIN tasks'
  /\ ~dev'[tasks[t].device].syncError

C12_Adopted(d, resp) ==
  /\ dev'[d].syncRevision = resp.revision
  /\ dev'[d].foodStates = resp.snapshot.foods
  /\ dev'[d].settings = resp.snapshot.settings
  /\ dev'[d].order = resp.snapshot.order

\* the device has no other request under way and is the only writer
C12_CursorIsStoredRevision(d) ==
  DOMAIN tasks' = {} => dev'[d].syncRevision = store'[TheKey].revision

C12_AcceptedAnswerAdopted ==
  [][\A t \in DOMAIN tasks : \A r \in InFlight :
       C12_AcceptedStep(t, r) => C12_Adopted(tasks[t].device, r.resp)]_vars

\* C12: once the answer Accepted to a push has been handled, the local snapshot is
\* the stored one and the cursor is the stored revision
C12_AcceptedPushLeavesCursorCurrent ==
  [][\A t \in DOMAIN tasks : \A r \in InFlight :
       C12_AcceptedStep(t, r) =>
         /\ C12_Adopted(tasks[t].device, r.resp)
         /\ C12_CursorIsStoredRevision(tasks[t].device)]_vars

(***************************************************************************)
(* C13: the merged exposure list of an item is the union of the two input  *)
(* lists without duplicates, in ascending order, cut to the three oldest,  *)
(* and is the same whichever side is local.                                *)
(***************************************************************************)
MergedTasks == {t \in DOMAIN tasks : tasks[t].kind = "merge" /\ tasks[t].pc = "merged"}
LocalOf(t) == tasks[t].snapshot
RemoteOf(t) == tasks[t].conflict.snapshot
SharedIds(t) == DOMAIN LocalOf(t).foods \cap DOMAIN RemoteOf(t).foods

Least(n, m) == IF n < m THEN n ELSE m

C13_UnionSortedCapped(list, left, right) ==
  LET all == Range(left) \cup Range(right)
      kept == Range(list)
  IN /\ kept \subseteq all
     /\ Len(list) = Cardinality(kept)
     /\ Len(list) = Least(Cardinality(all), 3)
     /\ \A i \in 1..Len(list) : \A j \in 1..Len(list) : i < j => list[i] < list[j]
     /\ \A cut \in all \ kept : \A k \in kept : k < cut

\* C13: the merged exposures of an item are the union of both sides without
\* duplicates, in ascending order, cut to the first three
C13_ExposuresMerged ==
  \A t \in MergedTasks : \A id \in SharedIds(t) :
    LET left == LocalOf(t).foods[id].exposures
        right == RemoteOf(t).foods[id].exposures
    IN /\ C13_UnionSortedCapped(tasks[t].merged.foods[id].exposures, left, right)
       /\ mergeSnapshots(RemoteOf(t), LocalOf(t)).foods[id].exposures
            = tasks[t].merged.foods[id].exposures

\* one side has three exposures, the other two, one of them on both sides: four
\* distinct ones, the newest is cut
C13_Witness ==
  \E t \in MergedTasks : \E id \in SharedIds(t) :
    LET left == LocalOf(t).foods[id].exposures
        right == RemoteOf(t).foods[id].exposures
    IN /\ Range(left) \cap Range(right) # {}
       /\ Cardinality(Range(left) \cup Range(right)) > 3
       /\ Len(tasks[t].merged.foods[id].exposures) = 3

(***************************************************************************)
(* C14: when one side of an item has the newer updatedAt and the older     *)
(* descriptionGeneratedAt and the other side the opposite, the merged item *)
(* takes hidden, notes and updatedAt from the first and description,       *)
(* reactions, generation time and model from the second, whichever side is *)
(* local.                                                                  *)
(***************************************************************************)
C14_Crossed(edited, described) ==
  /\ edited.updatedAt > described.updatedAt
  /\ edited.descriptionGeneratedAt < described.descriptionGeneratedAt

C14_FieldGroups(item, edited, described) ==
  /\ item.isHidden = edited.isHidden
  /\ item.notes = edited.notes
  /\ item.updatedAt = edited.updatedAt
  /\ item.description = described.description
  /\ item.reactions = described.reactions
  /\ item.descriptionGeneratedAt = described.descriptionGeneratedAt
  /\ item.descriptionModel = described.descriptionModel

\* C14: notes, description and the remaining fields of a merged item each come
\* from the side whose timestamp for that group is the newer
C14_FieldGroupsMergeApart ==
  \A t \in MergedTasks : \A id \in SharedIds(t) :
    LET localFood == LocalOf(t).foods[id]
        remoteFood == RemoteOf(t).foods[id]
        item == tasks[t].merged.foods[id]
    IN /\ C14_Crossed(localFood, remoteFood) => C14_FieldGroups(item, localFood, remoteFood)
       /\ C14_Crossed(remoteFood, localFood) => C14_FieldGroups(item, remoteFood, localFood)

\* both directions have been merged: the edited side local in one, remote in the other
C14_Witness ==
  \E t \in MergedTasks : \E id \in SharedIds(t) :
    /\ C14_Crossed(RemoteOf(t).foods[id], LocalOf(t).foods[id])
    /\ RemoteOf(t).foods[id].notes # LocalOf(t).foods[id].notes
    /\ RemoteOf(t).foods[id].description # LocalOf(t).foods[id].description
    /\ LocalOf(t).foods[id].descriptionGeneratedAt # 0
    /\ tasks[t].merged.foods[id].notes = RemoteOf(t).foods[id].notes

(***************************************************************************)
(* C15: merging a snapshot with itself gives the snapshot back: items and  *)
(* their exposure lists, order, settings, custom foods, custom families,   *)
(* family order, family images, updatedAt and the order timestamp.         *)
(***************************************************************************)
SelfMerges == {t \in MergedTasks : LocalOf(t) = RemoteOf(t)}

C15_SameFields(merged, snapshot) ==
  /\ merged.foods = snapshot.foods
  /\ merged.order = snapshot.order
  /\ merged.settings = snapshot.settings
  /\ merged.customFoods = snapshot.customFoods
  /\ merged.customFamilies = snapshot.customFamilies
  /\ merged.familyOrder = snapshot.familyOrder
  /\ merged.familyOverrides = snapshot.familyOverrides
  /\ merged.updatedAt = snapshot.updatedAt
  /\ merged.meta.orderUpdatedAt = snapshot.meta.orderUpdatedAt
  /\ merged.revision = snapshot.revision

DisjointMerges == {t \in MergedTasks : SharedIds(t) = {}}

\* C16: when the two snapshots share no item ID the merge holds every item of
\* both, each unchanged, whichever side is local
C16_DisjointItemsKept ==
  \A t \in DisjointMerges :
    LET items == tasks[t].merged.foods IN
    /\ DOMAIN items = DOMAIN LocalOf(t).foods \cup DOMAIN RemoteOf(t).foods
    /\ \A id \in DOMAIN LocalOf(t).foods : items[id] = LocalOf(t).foods[id]
    /\ \A id \in DOMAIN RemoteOf(t).foods : items[id] = RemoteOf(t).foods[id]
    /\ mergeSnapshots(RemoteOf(t), LocalOf(t)).foods = items

\* the local side has only f1, hidden and noted, the remote side only f2
C16_Witness ==
  \E t \in DisjointMerges :
    /\ DOMAIN LocalOf(t).foods = {"f1"} /\ DOMAIN RemoteOf(t).foods = {"f2"}
    /\ LocalOf(t).foods["f1"].isHidden
    /\ RemoteOf(t).foods["f2"].exposures # << >>
    /\ LocalOf(t).updatedAt # RemoteOf(t).updatedAt

(***************************************************************************)
(* C17: merging never removes an item: the item IDs of a merge are the     *)
(* union of the IDs of both sides, and an item ID once in a device's local *)
(* state or in the stored snapshot stays there through pulls, pushes and   *)
(* conflict retries.                                                       *)
(***************************************************************************)
C17_MergeKeepsAllIds ==
  \A t \in MergedTasks :
    DOMAIN tasks[t].merged.foods = DOMAIN LocalOf(t).foods \cup DOMAIN RemoteOf(t).foods

C17_IdsStay ==
  /\ \A d \in Devices : DOMAIN dev[d].foodStates \subseteq DOMAIN dev'[d].foodStates
  /\ \A k \in DOMAIN store :
       /\ k \in DOMAIN store'
       /\ DOMAIN store[k].snapshot.foods \subseteq DOMAIN store'[k].snapshot.foods

\* C17: no step removes an item ID from a snapshot: a merge keeps the IDs of both
\* inputs and the stored profile never loses one
C17_NoItemEverRemoved == [][C17_IdsStay]_vars

(***************************************************************************)
(* C18: an accepted push, creating or updating, stores no item with a      *)
(* custom-image URL and an empty attribution: an item whose attribution is *)
(* empty after the backfill is stored with url, attribution, attribution   *)
(* url, source and generation time empty.  A push answered 400 or 409      *)
(* stores nothing.                                                         *)
(***************************************************************************)
IsBlank(s) == trim(s) = ""

C18_StoredClean(pushed, stored) ==
  /\ ~IsBlank(stored.customImageUrl) => ~IsBlank(stored.customImageAttribution)
  /\ (~IsBlank(pushed.customImageUrl) /\ IsBlank(stored.customImageAttribution))
       => /\ stored.customImageUrl = ""
          /\ stored.customImageAttribution = ""
          /\ stored.customImageAttributionUrl = ""
          /\ stored.imageSource = ""
          /\ stored.imageGeneratedAt = 0

\* the step in which the insert or the update of request r writes the row
C18_Written(r) ==
  /\ r.route = "push" /\ r.pc \in {"insert", "update"}
  /\ store' # store
  /\ reqs' = (reqs (-) SetToBag({r})) (+) SetToBag({Respond(r, Accepted(r.toSave))})

\* a push that this step answers 400 or 409
C18_Rejected ==
  {r \in BagToSet(reqs') \ InFlight :
     r.route = "push" /\ r.pc = "done" /\ r.resp.status \in {400, 409}}

C18_PushStep ==
  /\ \A r \in InFlight :
       C18_Written(r) =>
         /\ store'[KeyOf(r.body)].snapshot = r.toSave
         /\ \A id \in DOMAIN r.body.snapshot.foods :
              C18_StoredClean(r.body.snapshot.foods[id], r.toSave.foods[id])
  /\ C18_Rejected # {} => store' = store

\* C18: every accepted push stores no item that has an image URL and an empty
\* attribution, and a refused push stores nothing
C18_StoredImagesHaveAttribution == [][C18_PushStep]_vars

\* an update was accepted whose item had a URL that is no image source the server
\* knows and a blank attribution: the stored item has no image
C18_Witness ==
  \E r \in InFlight :
    /\ r.route = "push" /\ r.pc = "done" /\ r.resp.status = 200
    /\ r.existing # Null
    /\ r.body.snapshot.foods["f1"].customImageUrl = UrlBad
    /\ r.body.snapshot.foods["f1"].customImageAttribution = UrlBlank
    /\ store[KeyOf(r.body)].snapshot = r.resp.snapshot
    /\ store[KeyOf(r.body)].snapshot.foods["f1"].customImageUrl = ""
    /\ store[KeyOf(r.body)].snapshot.foods["f1"].imageSource = ""

(***************************************************************************)
(* C19: after threshold consecutive answers that count as failures (400,   *)
(* 401, 403, and 404 on the sync routes) to one ip, the next request of    *)
(* that ip is answered 429 with Retry-After and does not reach the route   *)
(* handler until the block time has passed; an answer 2xx or 3xx deletes   *)
(* the failure record of the ip.                                           *)
(***************************************************************************)
\* the requests of ip that arrive in this step
C19_Arriving(ip) == {r \in BagToSet(reqs') : r.ip = ip /\ CopiesIn(r, reqs') > CopiesIn(r, reqs)}

\* the last threshold answers of the handler to ip all count as failures
C19_FailedInARow(ip) ==
  /\ Len(answered[ip]) = threshold
  /\ \A i \in 1..threshold : answered[ip][i].status \in {400, 401, 403, 404}

\* the block of the last failure, baseBlockMs at least, has not passed
C19_WithinBlock(ip) == now < answered[ip][threshold].at + baseBlockMs

\* each of these failures came within resetMs of the one before
C19_NoneForgotten(ip) ==
  \A i \in 2..threshold : answered[ip][i].at - answered[ip][i - 1].at <= resetMs

C19_Refused(r) == r.pc = "blocked" /\ r.status = 429 /\ r.retryAfter >= 1

C19_SuccessStep(ip) ==
  /\ Len(answered'[ip]) > 0
  /\ answered'[ip] # answered[ip]
  /\ answered'[ip][Len(answered'[ip])].status \in 200..399

\* a refused request never reaches the handler, and a success deletes the record
C19_RestOfStep ==
  /\ \A r \in InFlight : \A q \in BagToSet(reqs') :
       (r.pc = "blocked" /\ q.pc = "handler" /\ CopiesIn(q, reqs') > CopiesIn(q, reqs))
         => CopiesIn(r, reqs') >= CopiesIn(r, reqs)
  /\ \A ip \in ClientIps : C19_SuccessStep(ip) => ip \notin DOMAIN entries'

C20_PullCompleted(d) ==
  \E t \in DOMAIN tasks : \E r \in AnswerTo(t) :
    /\ tasks[t].kind = "pull" /\ tasks[t].device = d
    /\ r.resp.status = 200
    /\ reqs' = reqs (-) SetToBag({r})
    /\ t \notin DOMAIN tasks'

C20_Step ==
  \A d \in Devices : dev'[d].lastSyncAt # dev[d].lastSyncAt => C20_PullCompleted(d)

\* C20: every step that changes the last-sync time of a device adopts a pulled snapshot
C20_LastSyncOnlyOnPull == [][C20_Step]_vars

(***************************************************************************)
(* C21: settings travel by last-writer-wins: when A has changed a setting  *)
(* and pushed it and B has changed none, the next pull B completes adopts  *)
(* the settings of the pulled snapshot.                                    *)
(***************************************************************************)
\* device d adopts in this step the answer 200 r to its pull t
C21_PullAdopted(d, t, r) ==
  /\ tasks[t].kind = "pull" /\ tasks[t].device = d
  /\ r \in AnswerTo(t) /\ r.resp.status = 200
  /\ reqs' = reqs (-) SetToBag({r})
  /\ t \notin DOMAIN tasks'

C21_Step ==
  \A d \in Devices \ Changer : \A t \in DOMAIN tasks : \A r \in InFlight :
    C21_PullAdopted(d, t, r) => dev'[d].settings = r.resp.snapshot.settings

\* C21: a device whose user changes no setting holds, after each pull it completes,
\* the settings of the snapshot the server answered with
C21_PullAdoptsRemoteSettings == [][C21_Step]_vars

(***************************************************************************)
(* C22: each custom-image field of a merged item is the newer side's       *)
(* value, or the older side's when the newer side's is empty; a field      *)
(* cleared on the newer side does not come back, and a field set on one    *)
(* side only is never wiped.                                               *)
(***************************************************************************)
C22_Fields(item) ==
  <<item.customImageUrl, item.customImageAttribution, item.customImageAttributionUrl,
    item.imageSource>>

\* each field: the newer side's value, the older side's when that is empty
C22_NewerElseOlder(item, newer, older) ==
  \A i \in 1..4 :
    C22_Fields(item)[i] = IF C22_Fields(newer)[i] # "" THEN C22_Fields(newer)[i]
                          ELSE C22_Fields(older)[i]

\* newer is older after its user removed the image at a later time
C22_Cleared(newer, older) ==
  /\ older.customImageUrl # ""
  /\ newer.updatedAt > older.updatedAt
  /\ newer = handleClearCustomImage("f1" :> older, "f1", newer.updatedAt)["f1"]

C22_Of(item, newer, older) ==
  /\ C22_NewerElseOlder(item, newer, older)
  /\ C22_Cleared(newer, older) => \A i \in 1..4 : C22_Fields(item)[i] = ""
  /\ \A i \in 1..4 :
       (C22_Fields(newer)[i] = "") # (C22_Fields(older)[i] = "")
         => C22_Fields(item)[i] # "" \/ C22_Cleared(newer, older)

\* the first part of the claim alone, which the merge satisfies
C22_FieldsNewerElseOlder ==
  \A t \in MergedTasks : \A id \in SharedIds(t) :
    LET localFood == LocalOf(t).foods[id]
        remoteFood == RemoteOf(t).foods[id]
        item == tasks[t].merged.foods[id]
    IN IF localFood.updatedAt >= remoteFood.updatedAt
       THEN C22_NewerElseOlder(item, localFood, remoteFood)
       ELSE C22_NewerElseOlder(item, remoteFood, localFood)

\* C22: every custom-image field of a merged item is the newer side's value or,
\* when that is empty, the older side's; the fields of an image removed on the newer
\* side stay empty; a field set on one side only is not empty in the merge
C22_ImageFieldsMerged ==
  \A t \in MergedTasks : \A id \in SharedIds(t) :
    LET localFood == LocalOf(t).foods[id]
        remoteFood == RemoteOf(t).foods[id]
        item == tasks[t].merged.foods[id]
    IN IF localFood.updatedAt >= remoteFood.updatedAt
       THEN C22_Of(item, localFood, remoteFood)
       ELSE C22_Of(item, remoteFood, localFood)

(***************************************************************************)
(* C23: the merged order is one input's whole order array: that of the     *)
(* side whose order timestamp (meta.orderUpdatedAt, or updatedAt when that *)
(* is absent) is newer, local's on a tie.                                  *)
(***************************************************************************)
C23_OrderTime(snapshot) ==
  IF snapshot.meta.orderUpdatedAt = 0 THEN snapshot.updatedAt
  ELSE snapshot.meta.orderUpdatedAt

\* C23: the order of every merge is local's order when local's order timestamp is
\* not older than remote's, and remote's order otherwise
C23_OrderIsOneSidesOrder ==
  \A t \in MergedTasks :
    tasks[t].merged.order =
      IF C23_OrderTime(LocalOf(t)) >= C23_OrderTime(RemoteOf(t))
      THEN LocalOf(t).order ELSE RemoteOf(t).order

\* a tie between two different orders has been merged, and so has a local snapshot
\* without meta whose updatedAt is the newer order timestamp
C23_Witness ==
  \E t \in MergedTasks :
    /\ LocalOf(t).order # RemoteOf(t).order
    /\ tasks[t].merged.order = LocalOf(t).order
    /\ \/ C23_OrderTime(LocalOf(t)) = C23_OrderTime(RemoteOf(t))
       \/ /\ LocalOf(t).meta.orderUpdatedAt = 0
          /\ LocalOf(t).updatedAt > C23_OrderTime(RemoteOf(t))

(***************************************************************************)
(* C24: a merge carries remote's profileId, shareCode and revision, its    *)
(* updatedAt and order timestamp are the maximum of the two inputs'; so    *)
(* after a pull-merge is applied the revision cursor is the revision the   *)
(* server had when it answered the pull.                                   *)
(***************************************************************************)
C24_Max(a, b) == IF a >= b THEN a ELSE b

\* the first part of the claim: the identity fields and the stamps of a merge
C24_MergeCarriesRemoteIdentity ==
  \A t \in MergedTasks :
    LET local == LocalOf(t)
        remote == RemoteOf(t)
        merged == tasks[t].merged
    IN /\ merged.profileId = remote.profileId
       /\ merged.shareCode = remote.shareCode
       /\ merged.revision = remote.revision
       /\ merged.updatedAt = C24_Max(local.updatedAt, remote.updatedAt)
       /\ merged.meta.orderUpdatedAt
            = C24_Max(C23_OrderTime(local), C23_OrderTime(remote))

\* r.existing is the row the query of the pull selected
C24_Step ==
  \A d \in Devices : \A t \in DOMAIN tasks : \A r \in InFlight :
    C21_PullAdopted(d, t, r) => dev'[d].syncRevision = r.existing.revision

\* C24: in every step in which a device applies the merge of a pulled snapshot, its
\* revision cursor becomes the revision the row had when the server answered
C24_CursorIsRevisionOfAnswer == [][C24_Step]_vars

(***************************************************************************)
(* C25: in every reachable state every exposure list of a device and of    *)
(* the stored snapshot has at most 3 entries, no duplicate timestamp and   *)
(* is in ascending order.                                                  *)
(***************************************************************************)
C25_WellFormed(list) ==
  /\ Len(list) <= 3
  /\ \A i \in 1..Len(list) : \A j \in 1..Len(list) : i < j => list[i] < list[j]

C26_ProfileOf(task) ==
  IF task.kind = "push" THEN task.snapshot.profileId ELSE task.closure.profileId

\* the answer to task t is taken from the network in this step
C26_Answered(t) ==
  \E r \in AnswerTo(t) : reqs' = reqs (-) SetToBag({r}) /\ t \notin DOMAIN tasks'

C26_Step ==
  \A t \in DOMAIN tasks :
    LET d == tasks[t].device IN
    (C26_Answered(t) /\ C26_ProfileOf(tasks[t]) # dev[d].profileId)
      => View(dev'[d]) = View(dev[d])

\* the user edits the first profile only: notes in a push for the second are P's
C26_NoForeignPush ==
  \A r \in InFlight :
    (r.route = "push" /\ r.body.profileId = Profile2)
      => \A id \in DOMAIN r.body.snapshot.foods : r.body.snapshot.foods[id].notes = ""

\* C26: an answer to a request made for another profile than the active one leaves
\* items, order, settings and cursor unchanged, and no push for the second profile
\* carries the notes of the first
C26_AnswersStayWithTheirProfile == [][C26_Step /\ C26_NoForeignPush']_vars

(***************************************************************************)
(* C27: a local edit made while a push is in flight is not lost when the   *)
(* Accepted answer of the push is adopted: afterwards the edit is still in *)
(* the local state or it is in a push sent later.                          *)
(***************************************************************************)
C27_Noted(foods) == \E id \in DOMAIN foods : foods[id].notes # ""

\* the note is in a push of the device that is under way, or in the stored profile
C27_OnItsWay(d, t) ==
  \/ \E u \in DOMAIN tasks' :
       /\ u # t /\ tasks'[u].device = d /\ tasks'[u].kind = "push"
       /\ C27_Noted(tasks'[u].snapshot.foods)
  \/ \E k \in DOMAIN store' : C27_Noted(store'[k].snapshot.foods)

\* device d adopts the answer Accepted to its push t, sent before the note was written
C27_Adopts(d, t) ==
  /\ tasks[t].kind = "push" /\ tasks[t].device = d
  /\ \E r \in AnswerTo(t) : r.resp.status = 200 /\ reqs' = reqs (-) SetToBag({r})
  /\ t \notin DOMAIN tasks'
  /\ ~C27_Noted(tasks[t].snapshot.foods)
  /\ C27_Noted(dev[d].foodStates)

\* C27: when a device adopts the Accepted answer of a push it sent before its user
\* wrote a note, the note is afterwards in its local state, in a later push of the
\* device, or stored
C27_EditDuringPushSurvives ==
  [][\A d \in Devices : \A t \in DOMAIN tasks :
       C27_Adopts(d, t) => C27_Noted(dev'[d].foodStates) \/ C27_OnItsWay(d, t)]_vars

(***************************************************************************)
(* C28: the client sends no push for a profile before the activation pull  *)
(* of that profile has completed, and a switch of the active profile       *)
(* closes the gate until the activation pull of the new profile completes. *)
(***************************************************************************)
\* the initial pull of the profile that is active on d has been sent and answered
C28_ActivationPullCompleted(d) ==
  /\ dev[d].started
  /\ \A t \in DOMAIN tasks : ~(tasks[t].device = d /\ tasks[t].trigger = "initial")

\* device d sends a push in this step
C28_SendsPush(d) ==
  \E t \in DOMAIN tasks' \ DOMAIN tasks :
    tasks'[t].device = d /\ tasks'[t].kind = "push"

\* the user of d switches the profile in this step
C28_Switches(d) == dev'[d].profileId # dev[d].profileId

\* C28: every push is sent after the initial pull of the active profile was answered,
\* and a switch of the profile leaves the gate of the push effect closed
C28_NoPushBeforeActivationPull ==
  [][\A d \in Devices :
       /\ C28_SendsPush(d) => C28_ActivationPullCompleted(d)
       /\ C28_Switches(d) => ~dev'[d].syncReady /\ ~dev'[d].pushTimer]_vars

(***************************************************************************)
(* C29: an exposure the user unchecks on a device stays removed across     *)
(* sync: after the device merges with a remote snapshot that still holds   *)
(* the old list, the unchecked exposure is not in the merged item.         *)
(***************************************************************************)
\* local is remote after the user clicked a ticked box of it at a later time
C29_Unticked(local, remote) ==
  /\ local.updatedAt > remote.updatedAt
  /\ \E index \in 0..(Len(remote.exposures) - 1) :
       local = toggleExposure("f1" :> remote, "f1", index, local.updatedAt)["f1"]

\* C29: when the local item is the remote item with boxes unticked, no exposure the
\* user unticked is in the merged item
C29_UntickedStaysRemoved ==
  \A t \in MergedTasks : \A id \in SharedIds(t) :
    LET localFood == LocalOf(t).foods[id]
        remoteFood == RemoteOf(t).foods[id]
        unticked == Range(remoteFood.exposures) \ Range(localFood.exposures)
    IN C29_Unticked(localFood, remoteFood)
         => Range(tasks[t].merged.foods[id].exposures) \cap unticked = {}

(***************************************************************************)
(* C30: when two pushes for one nonexistent (profileId, shareCode) pair    *)
(* both SELECT no row and then both INSERT, exactly one row with revision  *)
(* 1 exists afterwards, holding the snapshot of the push that was answered *)
(* Accepted, and every push is answered Accepted or Conflict.              *)
(***************************************************************************)
\* the insert of a push that had selected no row runs in this step
C30_Inserts(r) == r.pc = "insert" /\ Stepped(r)

C30_InsertStep ==
  \A r \in PushesIn(reqs) :
    C30_Inserts(r)
    => LET k == KeyOf(r.body) IN
       /\ k \in DOMAIN store'
       /\ store'[k].revision = 1
       /\ k \in DOMAIN store => store' = store
       /\ \E q \in PushesIn(reqs') :
            /\ Arrived(q) /\ q.body = r.body /\ q.from = r.from
            /\ q.pc = "done"
            /\ q.resp.status \in {200, 409}
            /\ q.resp.status = 200 => store'[k].snapshot = q.resp.snapshot

\* C30: every insert of the creation branch, the second of two racing ones included,
\* leaves the one row of the pair at revision 1 with the snapshot answered Accepted,
\* and its push is answered Accepted or Conflict
C30_CreationRaceAnswered == [][C30_InsertStep]_vars

====
